---- MODULE Spec2Model ----
(***************************************************************************)
(* c64jasm: the two-pass 6502 assembler (class Assembler and main) as a    *)
(* state machine.  One behaviour is one run of main() on one source file.  *)
(***************************************************************************)
EXTENDS Integers, Sequences, FiniteSets, TLC

(***************************************************************************)
(* Bounds of the model.                                                    *)
(***************************************************************************)
\* Largest number of source lines of an assembled file.
MaxLines == 3

(***************************************************************************)
(* JavaScript values.  A number is the rational n/d in lowest terms (d = 1 *)
(* for integers, d = 0 and n = 1 or -1 for plus and minus Infinity); null  *)
(* is its own kind; undefined and NaN behave alike in every operation the  *)
(* assembler applies to them (ToNumber(undefined) is NaN) and share the    *)
(* kind "nan".  Numbers stay inside the 32-bit range, where ToInt32 is     *)
(* truncation; negative zero is not told from zero.                        *)
(***************************************************************************)
Null == [k |-> "null", n |-> 0, d |-> 1]
NaN == [k |-> "nan", n |-> 0, d |-> 1]
Num(n) == [k |-> "num", n |-> n, d |-> 1]

Sign(n) == IF n > 0 THEN 1 ELSE IF n < 0 THEN -1 ELSE 0
Abs(n) == IF n < 0 THEN -n ELSE n
RECURSIVE GCD(_, _)
GCD(a, b) == IF b = 0 THEN a ELSE GCD(b, a % b)

\* The number n/d.
Frac(n, d) ==
    IF d = 0
    THEN IF n = 0 THEN NaN ELSE [k |-> "num", n |-> Sign(n), d |-> 0]
    ELSE [k |-> "num",
          n |-> Sign(d) * Sign(n) * (Abs(n) \div GCD(Abs(n), Abs(d))),
          d |-> Abs(d) \div GCD(Abs(n), Abs(d))]

\* ToNumber for the values a comparison or an operator meets: null is 0.
ToNumber(v) == IF v.k = "null" THEN Num(0) ELSE v
\* Truncation toward zero of n/d, d > 0.
Trunc(n, d) == IF n >= 0 THEN n \div d ELSE -((-n) \div d)
\* ToInt32: NaN and the infinities give 0.
ToInt32(v) ==
    IF ToNumber(v).k = "num" /\ ToNumber(v).d # 0
    THEN Trunc(ToNumber(v).n, ToNumber(v).d) ELSE 0
\* ToUint8, the conversion Buffer.from applies to each array element.
ToUint8(v) == ToInt32(v) % 256
\* x & 0xff
And255(v) == Num(ToInt32(v) % 256)
\* (x >> 8) & 0xff
Shr8And255(v) == Num((ToInt32(v) \div 256) % 256)
\* a < b on JavaScript numbers: false as soon as one side is NaN.
JsLess(a, b) ==
    /\ ToNumber(a).k = "num"
    /\ ToNumber(b).k = "num"
    /\ ToNumber(a).n * ToNumber(b).d < ToNumber(b).n * ToNumber(a).d
\* a >= b on JavaScript numbers: false as soon as one side is NaN.
JsGeq(a, b) ==
    /\ ToNumber(a).k = "num"
    /\ ToNumber(b).k = "num"
    /\ ToNumber(a).n * ToNumber(b).d >= ToNumber(b).n * ToNumber(a).d

\* The bitwise operators on two's-complement integers of any length.
RECURSIVE BitAnd(_, _)
BitAnd(a, b) ==
    IF a = 0 \/ b = 0 THEN 0
    ELSE IF a = -1 THEN b
    ELSE IF b = -1 THEN a
    ELSE (a % 2) * (b % 2) + 2 * BitAnd(a \div 2, b \div 2)
BitNot(a) == -a - 1
BitOr(a, b) == BitNot(BitAnd(BitNot(a), BitNot(b)))
BitXor(a, b) == BitAnd(BitOr(a, b), BitNot(BitAnd(a, b)))
RECURSIVE Pow2(_)
Pow2(c) == IF c = 0 THEN 1 ELSE 2 * Pow2(c - 1)

\* l + r on numbers
JsAdd(l, r) ==
    IF l.d = 0 /\ r.d = 0 THEN (IF l.n = r.n THEN l ELSE NaN)
    ELSE IF l.d = 0 THEN l
    ELSE IF r.d = 0 THEN r
    ELSE Frac(l.n * r.d + r.n * l.d, l.d * r.d)
\* l / r on numbers
JsDiv(l, r) ==
    IF r.n < 0 THEN Frac(-(l.n * r.d), l.d * (-r.n)) ELSE Frac(l.n * r.d, l.d * r.n)
\* l % r on numbers: the sign of the dividend
JsRem(l, r) ==
    IF l.d = 0 \/ r.n = 0 THEN NaN
    ELSE IF r.d = 0 THEN l
    ELSE Frac(Sign(l.n) * ((Abs(l.n) * r.d) % (Abs(r.n) * l.d)), l.d * r.d)

(***************************************************************************)
(* The opcode table: for each mnemonic the opcode of the twelve encodings  *)
(* op[0] .. op[11] (immediate, zero page, zero page X, zero page Y,        *)
(* absolute, absolute X, absolute Y, indirect, (indirect,X), (indirect),Y, *)
(* single byte, branch), null where the mnemonic has no such encoding.     *)
(***************************************************************************)
opcodes ==
    [LDA |-> <<Num(169), Num(165), Num(181), Null, Num(173), Num(189), Num(185), Null, Num(161), Num(177), Null, Null>>,
     JMP |-> <<Null, Null, Null, Null, Num(76), Null, Null, Num(108), Null, Null, Null, Null>>,
     BNE |-> <<Null, Null, Null, Null, Null, Null, Null, Null, Null, Null, Null, Num(208)>>,
     RTS |-> <<Null, Null, Null, Null, Null, Null, Null, Null, Null, Null, Num(96), Null>>]

\* String.prototype.toUpperCase on the mnemonics of the model's sources.
toUpperCase(m) ==
    CASE m = "lda" -> "LDA"
      [] m = "jmp" -> "JMP"
      [] m = "bne" -> "BNE"
      [] m = "rts" -> "RTS"
      [] OTHER -> m

\* op[i] of a table row, i counted from 0 as in the source.
OpAt(op, i) == op[i + 1]

(***************************************************************************)
(* The AST the parser hands to assemble(): one entry per source line, null *)
(* for an empty line, else {label, stmt}.                                  *)
(***************************************************************************)
NullNode == [type |-> "null"]
Literal(v) == [type |-> "literal", value |-> v]
Ident(name) == [type |-> "ident", name |-> name]
Binary(op, l, r) == [type |-> "binary", op |-> op, left |-> l, right |-> r]
Unary(op, a) == [type |-> "UnaryExpression", operator |-> op, argument |-> a]

NoLabel == "<null>"
Insn(m, imm, abs, absx, absy, absind) ==
    [type |-> "insn", mnemonic |-> m, imm |-> imm, abs |-> abs, absx |-> absx,
     absy |-> absy, absind |-> absind]
InsnNone(m) == Insn(m, NullNode, NullNode, NullNode, NullNode, NullNode)
InsnImm(m, e) == Insn(m, e, NullNode, NullNode, NullNode, NullNode)
InsnAbs(m, e) == Insn(m, NullNode, e, NullNode, NullNode, NullNode)
InsnAbsX(m, e) == Insn(m, NullNode, NullNode, e, NullNode, NullNode)
InsnAbsY(m, e) == Insn(m, NullNode, NullNode, NullNode, e, NullNode)
InsnAbsInd(m, e) == Insn(m, NullNode, NullNode, NullNode, NullNode, e)
EmitBytes(t, values) == [type |-> t, values |-> values]
SetPc(e) == [type |-> "setpc", pc |-> e]
Line(label, stmt) == [type |-> "line", label |-> label, stmt |-> stmt]

(***************************************************************************)
(* class Labels.  The table is a plain object: a lookup of a name it does  *)
(* not own falls through to Object.prototype.                              *)
(***************************************************************************)
ObjectPrototype == {"constructor", "toString", "valueOf", "hasOwnProperty"}

\* Labels.add
add(lbls, name, addr, ln) ==
    [n \in DOMAIN lbls \cup {name} |->
        IF n = name THEN [addr |-> addr, lineNo |-> ln] ELSE lbls[n]]

\* Labels.find: the label, an inherited member of Object.prototype (whose
\* addr and lineNo are undefined), or undefined.
find(lbls, name) ==
    IF name \in DOMAIN lbls
    THEN [f |-> "label", addr |-> Num(lbls[name].addr), lineNo |-> Num(lbls[name].lineNo)]
    ELSE IF name \in ObjectPrototype
         THEN [f |-> "inherited", addr |-> NaN, lineNo |-> NaN]
         ELSE [f |-> "undefined", addr |-> NaN, lineNo |-> NaN]

(***************************************************************************)
(* Diagnostics: Assembler.error prints the current line number and a text. *)
(***************************************************************************)
\* A message: its text, the name it quotes, and the line it mentions.
ErrOn(kind, arg, on) == [kind |-> kind, arg |-> arg, on |-> on]
Err(kind, arg) == ErrOn(kind, arg, Null)


(***************************************************************************)
(* Assembler.evalExpr.  evalExpr is the value returned, evalExprErrors the *)
(* diagnostics printed on the way, in order.                               *)
(***************************************************************************)
\* The operators of the switch of evalExpr on two non-null operands.
HandledBinary == {"+", "-", "*", "/", "%", "&", "|", "^", "<<", ">>"}

BinaryOp(op, l, r) ==
    CASE op \in {"+", "-", "*", "/", "%"} ->
            IF l.k = "nan" \/ r.k = "nan" THEN NaN
            ELSE (CASE op = "+" -> JsAdd(l, r)
                    [] op = "-" -> JsAdd(l, Frac(-r.n, r.d))
                    [] op = "*" -> Frac(l.n * r.n, l.d * r.d)
                    [] op = "/" -> JsDiv(l, r)
                    [] op = "%" -> JsRem(l, r))
      [] op = "&" -> Num(BitAnd(ToInt32(l), ToInt32(r)))
      [] op = "|" -> Num(BitOr(ToInt32(l), ToInt32(r)))
      [] op = "^" -> Num(BitXor(ToInt32(l), ToInt32(r)))
      [] op = "<<" -> Num(ToInt32(l) * Pow2(ToInt32(r) % 32))
      [] op = ">>" -> Num(ToInt32(l) \div Pow2(ToInt32(r) % 32))

\* A binary node, given the values of its two sides.
evalBinary(op, left, right) ==
    IF left = Null \/ right = Null THEN Null
    ELSE IF op \in HandledBinary THEN BinaryOp(op, left, right)
    ELSE Null

\* A unary node, given the number its argument converts to.
evalUnary(operator, arg) ==
    CASE operator = "-" -> IF arg.k = "nan" THEN NaN ELSE Frac(-arg.n, arg.d)
      [] operator = "~" -> Num(BitNot(ToInt32(arg)))
      [] OTHER -> Null

\* An identifier in pass 1, given what Labels.find returns for it.
evalIdent(lbl) == IF lbl.f = "undefined" THEN Null ELSE lbl.addr

RECURSIVE evalExpr(_, _, _)
evalExpr(node, p, lbls) ==
    CASE node.type = "binary" ->
            evalBinary(node.op, evalExpr(node.left, p, lbls), evalExpr(node.right, p, lbls))
      [] node.type = "UnaryExpression" ->
            evalUnary(node.operator, ToNumber(evalExpr(node.argument, p, lbls)))
      [] node.type = "literal" -> Num(node.value)
      [] node.type = "ident" ->
            IF p = 1 THEN evalIdent(find(lbls, node.name)) ELSE Num(0)
      [] OTHER -> NaN

\* The diagnostic of a binary node itself, given the values of its sides.
binaryErrors(op, left, right) ==
    IF left # Null /\ right # Null /\ op \notin HandledBinary
    THEN <<Err("Unhandled binary operator", "undefined")>> ELSE <<>>

RECURSIVE evalExprErrors(_, _, _)
evalExprErrors(node, p, lbls) ==
    CASE node.type = "binary" ->
            evalExprErrors(node.left, p, lbls) \o evalExprErrors(node.right, p, lbls)
            \o binaryErrors(node.op, evalExpr(node.left, p, lbls), evalExpr(node.right, p, lbls))
      [] node.type = "UnaryExpression" ->
            evalExprErrors(node.argument, p, lbls)
            \o (IF node.operator \notin {"-", "~"}
                THEN <<Err("Unhandled unary operator", node.operator)>> ELSE <<>>)
      [] node.type = "ident" ->
            IF p = 1 /\ find(lbls, node.name).f = "undefined"
            THEN <<Err("Undefined label", node.name)>> ELSE <<>>
      [] OTHER -> <<>>

(***************************************************************************)
(* The emitters.  Each check returns whether it succeeded (ok), the values *)
(* it pushed on Assembler.binary (bytes) and the diagnostics it printed    *)
(* (errs).  Assembler.emit pushes the value as it is and advances codePC   *)
(* by one, so codePC after a check is codePC + Len(bytes).                 *)
(***************************************************************************)
Result(ok, bytes, errs) == [ok |-> ok, bytes |-> bytes, errs |-> errs]

\* Assembler.emit16
emit16(word) == <<And255(word), Shr8And255(word)>>

\* a - b on JavaScript values
JsSub(a, b) == BinaryOp("-", ToNumber(a), ToNumber(b))

\* Assembler.checkSingle
checkSingle(opcode) ==
    IF opcode = Null THEN Result(FALSE, <<>>, <<>>)
    ELSE Result(TRUE, <<opcode>>, <<>>)

\* checkImm once the operand has its value val (errs printed on the way).
checkImmVal(opcode, val, errs) ==
    IF val # Null
    THEN IF JsLess(val, Num(0)) \/ JsLess(Num(255), val)
         THEN Result(FALSE, <<>>, errs)
         ELSE Result(TRUE, <<opcode, val>>, errs)
    ELSE Result(FALSE, <<>>, errs)

\* Assembler.checkImm
checkImm(param, opcode, p, lbls) ==
    IF opcode = Null \/ param = NullNode THEN Result(FALSE, <<>>, <<>>)
    ELSE checkImmVal(opcode, evalExpr(param, p, lbls), evalExprErrors(param, p, lbls))

\* 1 << bits for the two widths checkAbs is called with
ShiftLeft1(bits) == IF bits = 8 THEN 256 ELSE 65536

\* checkAbs once the operand has its value val.
checkAbsVal(opcode, bits, val, errs) ==
    IF val # Null
    THEN IF JsLess(val, Num(0)) \/ JsGeq(val, Num(ShiftLeft1(bits)))
         THEN Result(FALSE, <<>>, errs)
         ELSE Result(TRUE, <<opcode>> \o (IF bits = 8 THEN <<val>> ELSE emit16(val)), errs)
    ELSE Result(FALSE, <<>>, errs)

\* Assembler.checkAbs
checkAbs(param, opcode, bits, p, lbls) ==
    IF opcode = Null \/ param = NullNode THEN Result(FALSE, <<>>, <<>>)
    ELSE checkAbsVal(opcode, bits, evalExpr(param, p, lbls), evalExprErrors(param, p, lbls))

\* checkBranch in pass 1 once the target has its value addr; rel is
\* codePC - 0x600 as read after emit(opcode).
checkBranchVal(opcode, addr, errs, rel) ==
    IF JsLess(addr, rel)
    THEN Result(TRUE, <<opcode, And255(JsSub(Num(255), JsSub(rel, addr)))>>, errs)
    ELSE Result(TRUE, <<opcode, And255(JsSub(JsSub(addr, rel), Num(1)))>>, errs)

\* Assembler.checkBranch; pc is codePC on entry.
checkBranch(param, opcode, p, lbls, pc) ==
    IF opcode = Null \/ param = NullNode THEN Result(FALSE, <<>>, <<>>)
    ELSE IF p = 0 THEN Result(TRUE, <<Num(0), Num(0)>>, <<>>)
    ELSE checkBranchVal(opcode, evalExpr(param, p, lbls), evalExprErrors(param, p, lbls),
                        Num(pc + 1 - 1536))

\* setPC once the expression has its value v.
setPCVal(v, errs, pc) ==
    IF v = Null
    THEN Result(FALSE, <<>>, errs \o <<Err("Couldn't evaluate expression value", "")>>)
    ELSE IF JsLess(Num(pc), v)
         THEN Result(TRUE, [j \in 1..(Trunc(v.n + v.d - 1, v.d) - pc) |-> Num(0)], errs)
         ELSE Result(TRUE, <<>>, errs)

\* Assembler.setPC
setPC(valueExpr, p, lbls, pc) ==
    setPCVal(evalExpr(valueExpr, p, lbls), evalExprErrors(valueExpr, p, lbls), pc)

\* One element of the list of tryIntArg, given its value v and what the
\* elements after it do (rest).
tryIntArgVal(bits, v, errs, rest) ==
    IF v = Null
    THEN Result(FALSE, <<>>, errs \o <<Err("Couldn't evaluate expression value", "")>>)
    ELSE Result(rest.ok, (IF bits = 8 THEN <<v>> ELSE emit16(v)) \o rest.bytes,
                errs \o rest.errs)

\* tryIntArg of Assembler.checkDirectives
RECURSIVE tryIntArg(_, _, _, _)
tryIntArg(exprList, bits, p, lbls) ==
    IF exprList = <<>> THEN Result(TRUE, <<>>, <<>>)
    ELSE tryIntArgVal(bits, evalExpr(Head(exprList), p, lbls),
                      evalExprErrors(Head(exprList), p, lbls),
                      tryIntArg(Tail(exprList), bits, p, lbls))

\* A `!binary` statement; size and offset are NullNode where the source
\* leaves them out.
BinaryInclude(filename, size, offset) ==
    [type |-> "binary", filename |-> filename, size |-> size, offset |-> offset]

\* readFileSync(filename): the file the sources of the model include.
readFileSync(filename) == <<201, 202, 203, 204>>

\* The RangeError that buf.readUInt8 throws for an offset that is not an
\* integer inside the buffer; nothing catches it.
RangeError == Err("RangeError", "")
Thrown(errs) == \E j \in 1..Len(errs) : errs[j].kind = "RangeError"

InBuffer(buf, at_) == at_.k = "num" /\ at_.d = 1 /\ at_.n \in 0..(Len(buf) - 1)

\* The loop of emitBinary from index j on, given what the iterations
\* after j do (rest is evaluated only when iteration j emits).
RECURSIVE emitBinaryFrom(_, _, _, _)
emitBinaryRead(buf, offset, size, j) ==
    IF InBuffer(buf, JsAdd(Num(j), ToNumber(offset)))
    THEN Result(emitBinaryFrom(buf, offset, size, j + 1).ok,
                <<Num(buf[JsAdd(Num(j), ToNumber(offset)).n + 1])>>
                    \o emitBinaryFrom(buf, offset, size, j + 1).bytes,
                emitBinaryFrom(buf, offset, size, j + 1).errs)
    ELSE Result(FALSE, <<>>, <<RangeError>>)

emitBinaryFrom(buf, offset, size, j) ==
    IF JsLess(Num(j), size) THEN emitBinaryRead(buf, offset, size, j)
    ELSE Result(TRUE, <<>>, <<>>)

\* emitBinary once offset and size have their values.
emitBinaryVal(buf, offset, size, errs) ==
    IF offset = Null \/ size = Null THEN Result(FALSE, <<>>, errs)
    ELSE Result(emitBinaryFrom(buf, offset, size, 0).ok,
                emitBinaryFrom(buf, offset, size, 0).bytes,
                errs \o emitBinaryFrom(buf, offset, size, 0).errs)

\* let offset of emitBinary
binaryOffset(ast, p, lbls) ==
    IF ast.offset # NullNode THEN evalExpr(ast.offset, p, lbls) ELSE Num(0)

\* let size of emitBinary
binarySize(ast, buf, offset, p, lbls) ==
    IF ast.size # NullNode THEN evalExpr(ast.size, p, lbls)
    ELSE JsSub(Num(Len(buf)), offset)

\* Assembler.emitBinary
emitBinary(ast, p, lbls) ==
    emitBinaryVal(readFileSync(ast.filename),
                  binaryOffset(ast, p, lbls),
                  binarySize(ast, readFileSync(ast.filename), binaryOffset(ast, p, lbls), p, lbls),
                  (IF ast.offset # NullNode THEN evalExprErrors(ast.offset, p, lbls) ELSE <<>>)
                  \o (IF ast.size # NullNode THEN evalExprErrors(ast.size, p, lbls) ELSE <<>>))

\* Assembler.checkDirectives
checkDirectives(ast, p, lbls, pc) ==
    CASE ast.type = "byte" -> tryIntArg(ast.values, 8, p, lbls)
      [] ast.type = "word" -> tryIntArg(ast.values, 16, p, lbls)
      [] ast.type = "setpc" -> setPC(ast.pc, p, lbls, pc)
      [] ast.type = "binary" -> emitBinary(ast, p, lbls)
      [] OTHER -> Result(FALSE, <<>>, <<Err("Unknown directive", "undefined")>>)

(***************************************************************************)
(* Assembler.assembleLine on one entry of the AST, in pass p, with label   *)
(* table lbls and codePC = pc.  Besides ok, bytes and errs it returns the  *)
(* label table it leaves (labels), whether it printed the error banner     *)
(* (banner), whether it ran past its first statement and set currentLineNo *)
(* (entered), and which encoding emitted (mode).                           *)
(***************************************************************************)
\* const lineNo = 13
lineNo == 13

ModeNames == <<"single", "imm", "zp", "absx", "absy", "absind", "abs", "branch">>

\* let noArgs of assembleLine
noArgs(insn) ==
    /\ insn.imm = NullNode
    /\ insn.abs = NullNode
    /\ insn.absx = NullNode
    /\ insn.absy = NullNode
    /\ insn.absind = NullNode

\* The chain of checks of assembleLine for an instruction, in source order.
Attempts(insn, op, p, lbls, pc) ==
    << IF noArgs(insn) THEN checkSingle(OpAt(op, 10)) ELSE Result(FALSE, <<>>, <<>>),
       checkImm(insn.imm, OpAt(op, 0), p, lbls),
       checkAbs(insn.abs, OpAt(op, 1), 8, p, lbls),
       checkAbs(insn.absx, OpAt(op, 5), 16, p, lbls),
       checkAbs(insn.absy, OpAt(op, 6), 16, p, lbls),
       checkAbs(insn.absind, OpAt(op, 7), 16, p, lbls),
       checkAbs(insn.abs, OpAt(op, 4), 16, p, lbls),
       checkBranch(insn.abs, OpAt(op, 11), p, lbls, pc) >>

\* Index of the first check of the chain that returns true, 0 if none does.
FirstOk(as) ==
    IF \E j \in 1..Len(as) : as[j].ok
    THEN CHOOSE j \in 1..Len(as) : as[j].ok /\ \A h \in 1..(j - 1) : ~as[h].ok
    ELSE 0

RECURSIVE ErrsUpTo(_, _)
ErrsUpTo(as, n) == IF n = 0 THEN <<>> ELSE ErrsUpTo(as, n - 1) \o as[n].errs

LineResult(ok, bytes, errs, lbls, banner, mode) ==
    [ok |-> ok, bytes |-> bytes, errs |-> errs, labels |-> lbls, banner |-> banner,
     entered |-> TRUE, mode |-> mode]

\* The outcome of the chain as: its first success j, or the error banner.
ChainResult(as, j, lbls) ==
    IF j = 0
    THEN LineResult(FALSE, <<>>, ErrsUpTo(as, Len(as)), lbls, TRUE, "none")
    ELSE LineResult(TRUE, as[j].bytes, ErrsUpTo(as, j), lbls, FALSE, ModeNames[j])

RunChain(as, lbls) == ChainResult(as, FirstOk(as), lbls)

\* The instruction part of assembleLine.
assembleInsn(insn, p, lbls, pc) ==
    IF toUpperCase(insn.mnemonic) \in DOMAIN opcodes
    THEN RunChain(Attempts(insn, opcodes[toUpperCase(insn.mnemonic)], p, lbls, pc), lbls)
    ELSE LineResult(FALSE, <<>>, <<>>, lbls, TRUE, "none")

DirectiveResult(r, lbls, mode) == LineResult(r.ok, r.bytes, r.errs, lbls, FALSE, mode)

\* The part of assembleLine after the label.
assembleStmt(stmt, p, lbls, pc) ==
    IF stmt = NullNode THEN LineResult(TRUE, <<>>, <<>>, lbls, FALSE, "label")
    ELSE IF stmt.type # "insn"
         THEN DirectiveResult(checkDirectives(stmt, p, lbls, pc), lbls, stmt.type)
         ELSE assembleInsn(stmt, p, lbls, pc)

\* The label part of an assembleLine that lets a later definition replace an
\* earlier one without a diagnostic.
assembleLabelReplaces(line, oldLabel, p, lbls, pc) ==
    assembleStmt(line.stmt, p, add(lbls, line.label, pc, lineNo), pc)

\* The label part of assembleLine in pass 0, given what Labels.find returns.
assembleLabel(line, oldLabel, p, lbls, pc) ==
    IF oldLabel.f = "undefined"
    THEN assembleStmt(line.stmt, p, add(lbls, line.label, pc, lineNo), pc)
    ELSE LineResult(FALSE, <<>>,
                    <<ErrOn("Label already defined", line.label, oldLabel.lineNo)>>,
                    lbls, FALSE, "none")

\* Assembler.assembleLine
assembleLine(line, p, lbls, pc) ==
    IF line = NullNode
    THEN [LineResult(TRUE, <<>>, <<>>, lbls, FALSE, "empty") EXCEPT !.entered = FALSE]
    ELSE IF line.label # NoLabel /\ p = 0
         THEN assembleLabel(line, find(lbls, line.label), p, lbls, pc)
         ELSE assembleStmt(line.stmt, p, lbls, pc)

(***************************************************************************)
(* Assembler.emitBasicHeader: the bytes of the BASIC line "SYS 2061".  The *)
(* digit of a divider div is pushed as the number 0x30 + (addr / div) % 10 *)
(* with a real division, (48 * div + addr % (10 * div)) / div.             *)
(***************************************************************************)
Dividers == <<10000, 1000, 100, 10, 1>>

RECURSIVE HeaderDigits(_, _)
HeaderDigits(addr, j) ==
    IF j > Len(Dividers) THEN <<>>
    ELSE (IF addr >= Dividers[j]
          THEN <<Frac(48 * Dividers[j] + (addr % (10 * Dividers[j])), Dividers[j])>>
          ELSE <<>>) \o HeaderDigits(addr, j + 1)

\* A header whose SYS operand is the load address.
emitBasicHeaderSysLoad ==
    <<Num(12), Num(8), Num(0), Num(0), Num(158)>> \o HeaderDigits(2049, 1)
    \o <<Num(0), Num(0), Num(0)>>

emitBasicHeader ==
    <<Num(12), Num(8), Num(0), Num(0), Num(158)>> \o HeaderDigits(2061, 1)
    \o <<Num(0), Num(0), Num(0)>>

\* A prg that writes the load address high byte first.
prgBigEndian(bin) == <<8, 1>> \o [j \in 1..Len(bin) |-> ToUint8(bin[j])]

\* Assembler.prg: Buffer.from converts every element of [1, 8].concat(binary)
\* to an unsigned byte.
prg(bin) == <<1, 8>> \o [j \in 1..Len(bin) |-> ToUint8(bin[j])]

(***************************************************************************)
(* The disassembler of part_008.  What it prints for an instruction is a   *)
(* record: the address, the mnemonic, the addressing mode of the decoder   *)
(* that printed it, and the operand text as its prefix ("$" or none) and   *)
(* its digits.                                                             *)
(***************************************************************************)
\* v.toString(16), most significant digit first, for an integer v >= 0
RECURSIVE toString16(_)
toString16(v) == IF v < 16 THEN <<v>> ELSE Append(toString16(v \div 16), v % 16)

\* String.prototype.padStart(n, '0')
RECURSIVE padStart(_, _)
padStart(str, n) == IF Len(str) >= n THEN str ELSE padStart(<<0>> \o str, n)

toHex8(v) == padStart(toString16(v), 2)
toHex16(v) == padStart(toString16(v), 4)

\* opToDecl[op]: the mnemonics whose table row holds op (the constructor
\* keeps the last such key; the rows of opcodes share no opcode)
DeclsOf(op) == { key \in DOMAIN opcodes : \E j \in 0..11 : OpAt(opcodes[key], j) = Num(op) }

\* decl.decode.indexOf(op)
indexOf(row, op) == CHOOSE j \in 0..11 : OpAt(row, j) = Num(op) /\ \A h \in 0..(j - 1) : OpAt(row, h) # Num(op)

\* The number of operand bytes the decoder of a table column reads, and
\* the mode it prints; column 9 has no decoder.
DecoderBytes(idx) ==
    CASE idx \in {0, 1, 2, 3, 8, 11} -> 1
      [] idx \in {4, 5, 6, 7} -> 2
      [] OTHER -> 0

DecoderMode(idx) ==
    <<"imm", "zp", "zpx", "zpy", "abs", "absx", "absy", "ind", "indx", "none", "single", "branch">>[idx + 1]

\* let bofs, tgt of disBranch
disBranch(addr, lo) == addr + (IF lo >= 128 THEN -(256 - lo) ELSE lo) + 2

\* The operand text of the decoder of column idx at address addr, whose
\* operand bytes are lo and hi: disImm prints "#" and the hex digits with
\* no "$", the others print "$" and the hex digits.
DecoderText(idx, addr, lo, hi) ==
    CASE idx = 0 -> [dollar |-> FALSE, digits |-> toHex8(lo)]
      [] idx \in {1, 2, 3, 8} -> [dollar |-> TRUE, digits |-> toHex8(lo)]
      [] idx \in {4, 5, 6, 7} -> [dollar |-> TRUE, digits |-> toHex16(lo + hi * 256)]
      [] idx = 11 -> [dollar |-> TRUE, digits |-> toHex16(disBranch(addr, lo))]
      [] OTHER -> [dollar |-> FALSE, digits |-> <<>>]

\* buf.readUInt8(offs) where offs is inside the buffer
readUInt8(buf, offs) == buf[offs + 1]

\* What one decoder prints for the opcode at offset offs.
Decoded(buf, offs, key, idx) ==
    [addr |-> readUInt8(buf, 0) + readUInt8(buf, 1) * 256 + offs - 2,
     mnemonic |-> key,
     mode |-> DecoderMode(idx),
     text |-> DecoderText(idx, readUInt8(buf, 0) + readUInt8(buf, 1) * 256 + offs - 2,
                          IF DecoderBytes(idx) >= 1 THEN readUInt8(buf, offs + 1) ELSE 0,
                          IF DecoderBytes(idx) >= 2 THEN readUInt8(buf, offs + 2) ELSE 0)]

\* The loop of Disassembler.disassemble from offset offs on, out being
\* what was printed before: a byte that is no opcode, or whose column has
\* no decoder, is skipped; a decoder that reads past the end of the
\* buffer throws a RangeError and ends the run.
RECURSIVE disassembleFrom(_, _, _)
disassembleDecl(buf, offs, out, key, idx) ==
    IF idx \in {9} \/ idx > 11 THEN disassembleFrom(buf, offs + 1, out)
    ELSE IF offs + DecoderBytes(idx) >= Len(buf) THEN out
    ELSE disassembleFrom(buf, offs + 1 + DecoderBytes(idx),
                         Append(out, Decoded(buf, offs, key, idx)))

disassembleOp(buf, offs, out, decls) ==
    IF decls = {} THEN disassembleFrom(buf, offs + 1, out)
    ELSE disassembleDecl(buf, offs, out, CHOOSE key \in decls : TRUE,
                         indexOf(opcodes[CHOOSE key \in decls : TRUE], readUInt8(buf, offs)))

disassembleFrom(buf, offs, out) ==
    IF offs >= Len(buf) THEN out
    ELSE disassembleOp(buf, offs, out, DeclsOf(readUInt8(buf, offs)))

\* The load address the constructor of Disassembler reads from a file.
loadAddress(buf) == readUInt8(buf, 0) + readUInt8(buf, 1) * 256

\* new Disassembler(buf).disassemble(): the constructor skips the two
\* bytes of the load address and the twelve of the BASIC header.
disassemble(buf) == disassembleFrom(buf, 2 + 12, <<>>)

(***************************************************************************)
(* parseBasicSysAddress of the debugger (c64jasmRuntime.ts): the decimal   *)
(* operand of the SYS of a .prg that starts with 01 08 and has the SYS     *)
(* token 9E at offset 6; -1 stands for the Error thrown otherwise.         *)
(***************************************************************************)
\* the while loop, at offset offs with addr so far; the digits of a file
\* the assembler wrote end at a zero byte inside the file
RECURSIVE parseDigits(_, _, _)
parseDigits(buf, offs, addr) ==
    IF offs >= Len(buf) \/ readUInt8(buf, offs) = 0 THEN addr
    ELSE parseDigits(buf, offs + 1, addr * 10 + (readUInt8(buf, offs) - 48))

parseBasicSysAddress(buf) ==
    IF Len(buf) > 6 /\ readUInt8(buf, 0) = 1 /\ readUInt8(buf, 1) = 8 /\ readUInt8(buf, 6) = 158
    THEN parseDigits(buf, 7, 0)
    ELSE -1

(***************************************************************************)
(* The sources assembled: every file of at most MaxLines lines over Lines. *)
(***************************************************************************)
\* The address of the "* = $08a0" line: more than 127 bytes past the header.
FarPC == 2208

Lines ==
    { NullNode,                                                 \* (empty line)
      Line("a", NullNode),                                      \* a:
      Line("a", InsnNone("rts")),                               \* a: rts
      Line("constructor", NullNode),                            \* constructor:
      Line(NoLabel, InsnAbs("lda", Ident("a"))),                \*    lda a
      Line(NoLabel, InsnAbs("bne", Ident("a"))),                \*    bne a
      Line(NoLabel, SetPc(Literal(FarPC))),                     \*    * = $08a0
      Line(NoLabel, InsnAbs("lda", Literal(16))),               \*    lda $10
      Line(NoLabel, InsnAbsX("lda", Literal(16))),              \*    lda $10,x
      Line(NoLabel, InsnImm("lda", Literal(768))),              \*    lda #$300
      Line(NoLabel, InsnAbs("jmp", Ident("b"))),                \*    jmp b
      Line(NoLabel, InsnAbs("jmp", Ident("constructor"))),      \*    jmp constructor
      Line(NoLabel, EmitBytes("byte", <<Literal(1), Ident("b")>>)), \* !byte 1, b
      Line(NoLabel, InsnImm("lda", Literal(16))),               \*    lda #$10
      Line(NoLabel, EmitBytes("byte", <<Literal(173)>>)) }      \*    !byte $ad

Programs == UNION { [1..n -> Lines] : n \in 0..MaxLines }

(***************************************************************************)
(* State.                                                                  *)
(***************************************************************************)
VARIABLES
    statements,     \* the parsed source file, the same in both passes
    binary,         \* Assembler.binary
    currentLineNo,  \* Assembler.currentLineNo
    codePC,         \* Assembler.codePC
    pass,           \* Assembler.pass
    labels,         \* Assembler.labels.labels
    console,        \* what console.log has printed
    prgFile,        \* the contents written to test.prg, <<>> before
    at,             \* where main() is
    started,        \* how many passes main() has started
    i,              \* the loop variable of Assembler.assemble
    hist            \* one entry per assembleLine call: what it was given and did

\* The state of the assembler of part_007 and of its main().
\* What the runs of main() that have ended left behind: the file written
\* and the console output of each.
VARIABLE runs

asmVars == <<statements, binary, currentLineNo, codePC, pass, labels, console, prgFile,
             at, started, i, hist, runs>>

\* The assembler of part_007 before main() has run.
AsmIdle ==
    /\ statements = <<>>
    /\ binary = <<>>
    /\ currentLineNo = 0
    /\ codePC = 0
    /\ pass = 0
    /\ labels = <<>>
    /\ console = <<>>
    /\ prgFile = <<>>
    /\ at = "startPass"
    /\ started = 0
    /\ i = 0
    /\ hist = <<>>
    /\ runs = <<>>

(***************************************************************************)
(* State of the assembler driver that src/test/test.ts calls as            *)
(* assemble() of '../src/asm'.  That file is not among the sources; the    *)
(* driver is modelled from sections 3 and 4.4 - 4.8 of the specification.  *)
(***************************************************************************)
VARIABLES
    drvSource,      \* the parsed source: a sequence of statements
    drvAt,          \* where assemble() is: "idle", "pass", "report", "done"
    drvPass,        \* the number of the next resolution pass, from 1
    drvFinal,       \* whether the next pass is the final pass
    drvPrev,        \* what the pass before the next one produced
    drvLog,         \* one entry per pass run: what it produced
    drvResult       \* the AssembleResult, once assemble() has returned

driverVars == <<drvSource, drvAt, drvPass, drvFinal, drvPrev, drvLog, drvResult>>

\* The driver before any call of assemble().
DriverIdle ==
    /\ drvSource = <<>>
    /\ drvAt = "idle"
    /\ drvPass = 0
    /\ drvFinal = FALSE
    /\ drvPrev = <<>>
    /\ drvLog = <<>>
    /\ drvResult = <<>>

(***************************************************************************)
(* State of a run of the disassembler of part_008 on a file.               *)
(***************************************************************************)
VARIABLES
    disBuf,         \* Disassembler.buf, the bytes of the file
    curOffs,        \* Disassembler.curOffs
    disAt,          \* where the run is: "idle", "loop", "done", "thrown"
    listing,        \* what the run has printed, one entry per line
    disStarts       \* the offsets at which the loop read an opcode byte

disVars == <<disBuf, curOffs, disAt, listing, disStarts>>

\* No disassembler run.
DisIdle ==
    /\ disBuf = <<>>
    /\ curOffs = 0
    /\ disAt = "idle"
    /\ listing = <<>>
    /\ disStarts = <<>>

(***************************************************************************)
(* State of a MonitorConnection of c64jasmRuntime.ts and of the binary     *)
(* monitor it talks to.                                                    *)
(***************************************************************************)
VARIABLES
    monitor,        \* the fields of the MonitorConnection
    requests,       \* the cmd.Request objects passed to it, in the order of the calls
    operations,     \* the binary-protocol operations called, in the order of the calls
    wire,           \* bytes the binary monitor has sent that no 'data' event has delivered
    sent,           \* the complete frames the binary monitor has sent, in order
    dispatched,     \* the frames handleIncomingData has dispatched, in order
    uncaught        \* the number of exceptions that left a handler uncaught

monVars == <<monitor, requests, operations, wire, sent, dispatched, uncaught>>

\* The fields of a MonitorConnection after its constructor; no request in
\* the queue is the empty queue, no responseEater and no Buffer are 0 and <<>>.
NewMonitor ==
    [workingOnPromise |-> FALSE, queue |-> <<>>, requestId |-> 0, stopped |-> FALSE,
     responseEater |-> 0, buffer |-> <<>>, wasRunningBeforeOperation |-> FALSE]

\* A MonitorConnection nobody has called yet.
MonIdle ==
    /\ monitor = NewMonitor
    /\ requests = <<>>
    /\ operations = <<>>
    /\ wire = <<>>
    /\ sent = <<>>
    /\ dispatched = <<>>
    /\ uncaught = 0

(***************************************************************************)
(* State of the debug adapter of c64jasmDebug.ts and of the C64jasmRuntime *)
(* of c64jasmRuntime.ts it drives.                                         *)
(***************************************************************************)
VARIABLES
    runtimeBreakpoints, \* C64jasmRuntime._breakpoints: for each path its C64jasmBreakpoint[]
    breakpointId,       \* C64jasmRuntime._breakpointId
    monBreakpoints,     \* MonitorConnection.breakpoints: pc -> checkpoint id
    checkpoints,        \* the ids of the checkpoints set in VICE
    checkpointSeq,      \* the id VICE gives to the next checkpoint
    reported,           \* the body of the last SetBreakpointsResponse
    sessions,           \* the C64jasmDebugSession objects constructed, in order
    activeSession,      \* C64jasmDebugSession.activeSession: 0 (null) or a session
    listeners,          \* the sessions whose listeners the runtime singleton holds
    runtimeStarted,     \* the runtime holds a monitor and a VICE that start() made
    dapRequests,        \* the debug-adapter requests a session has handled, in order
    dapSent,            \* the responses the session has sent to its client, in order
    rtMonitor,          \* C64jasmRuntime.monitor: 0 (undefined) or a MonitorConnection
    viceProcessId,      \* viceProcessId of c64jasmRuntime.ts: 0 (null) or a pid
    vices,              \* the pids of the VICE processes that run
    liveMonitors,       \* the MonitorConnections constructed and not disposed
    rtCalls,            \* the calls of start() and terminate(), in order
    sock,               \* the fields of the SocketWrapper binarySocket and its net.Socket
    conn,               \* disposed and connectionEstablished of its MonitorConnection
    quitEvents,         \* the number of 'quit' events the MonitorConnection has emitted
    late                \* after dispose or abort: the connection attempts started, a timer fired

bpVars == <<runtimeBreakpoints, breakpointId, monBreakpoints, checkpoints, checkpointSeq, reported>>

\* The source files of the debugged program.
Paths == {"a.asm", "b.asm"}

\* A runtime and a monitor with no breakpoint, a VICE with no checkpoint.
BpIdle ==
    /\ runtimeBreakpoints = [path \in Paths |-> <<>>]
    /\ breakpointId = 1
    /\ monBreakpoints = <<>>
    /\ checkpoints = {}
    /\ checkpointSeq = 1
    /\ reported = {}

sessVars == <<sessions, activeSession, listeners, runtimeStarted>>

\* No session constructed, a runtime nobody listens to and nobody started.
SessIdle ==
    /\ sessions = <<>>
    /\ activeSession = 0
    /\ listeners = {}
    /\ runtimeStarted = FALSE

respVars == <<dapRequests, dapSent>>

\* A session that has handled no request.
RespIdle ==
    /\ dapRequests = <<>>
    /\ dapSent = <<>>

rtVars == <<rtMonitor, viceProcessId, vices, liveMonitors, rtCalls>>

\* A runtime nobody has started.
RtIdle ==
    /\ rtMonitor = 0
    /\ viceProcessId = 0
    /\ vices = {}
    /\ liveMonitors = {}
    /\ rtCalls = <<>>

sockVars == <<sock, conn, quitEvents, late>>

\* The fields of a SocketWrapper before the body of its constructor runs;
\* version 1 is the class without an abort signal. The net.Socket is
\* "closed", "connecting", "open" or "ending"; timer tells that the timer
\* of onClosed is pending.
NewSocketWrapper(version) ==
    [version |-> version, disposed |-> FALSE, retryingConnect |-> FALSE,
     isConnected |-> FALSE, aborted |-> FALSE, socket |-> "closed", timer |-> FALSE]

\* The fields of a MonitorConnection after its constructor; at is "idle",
\* or "quitting" while dispose() awaits the QuitRequest.
NewConnection == [disposed |-> FALSE, connectionEstablished |-> FALSE, at |-> "idle"]

\* No connection made.
SockIdle ==
    /\ sock = NewSocketWrapper(2)
    /\ conn = NewConnection
    /\ quitEvents = 0
    /\ late = [connects |-> 0, timers |-> FALSE]

dbgVars == <<bpVars, sessVars, respVars, rtVars, sockVars>>

DbgIdle ==
    /\ BpIdle
    /\ SessIdle
    /\ RespIdle
    /\ RtIdle
    /\ SockIdle

notBpVars == <<asmVars, driverVars, disVars, monVars, sessVars, respVars, rtVars, sockVars>>
notSessVars == <<asmVars, driverVars, disVars, monVars, bpVars, respVars, rtVars, sockVars>>
notRespVars == <<asmVars, driverVars, disVars, monVars, bpVars, sessVars, rtVars, sockVars>>
notRtVars == <<asmVars, driverVars, disVars, monVars, bpVars, sessVars, respVars, sockVars>>
notSockVars == <<asmVars, driverVars, disVars, monVars, bpVars, sessVars, respVars, rtVars>>

\* What a step of the assembler, of the driver, of the disassembler, of the
\* monitor connection leaves alone.
notAsmVars == <<driverVars, disVars, monVars, dbgVars>>
notDriverVars == <<asmVars, disVars, monVars, dbgVars>>
notDisVars == <<asmVars, driverVars, monVars, dbgVars>>
notMonVars == <<asmVars, driverVars, disVars, dbgVars>>

vars == <<asmVars, driverVars, disVars, monVars, dbgVars>>

\* A line of console output: with the "src/foo.asm:<line> - " prefix of
\* Assembler.error (src) or bare.
Printed(line, e) == [src |-> TRUE, line |-> line, kind |-> e.kind, arg |-> e.arg, on |-> e.on]
Banner == [src |-> FALSE, line |-> 0, kind |-> "**** ERROR ERROR ERROR ****", arg |-> "", on |-> Null]

Init ==
    /\ statements \in Programs
    /\ binary = <<>>
    /\ currentLineNo = 0
    /\ codePC = 0
    /\ pass = 0
    /\ labels = <<>>
    /\ console = <<>>
    /\ prgFile = <<>>
    /\ at = "startPass"
    /\ started = 0
    /\ i = 0
    /\ hist = <<>>
    /\ runs = <<>>
    /\ DriverIdle
    /\ DisIdle
    /\ MonIdle
    /\ DbgIdle

\* A startPass that also empties the label table.
StartPassResets ==
    /\ at = "startPass"
    /\ codePC' = 2049
    /\ pass' = started
    /\ binary' = <<>>
    /\ labels' = <<>>
    /\ started' = started + 1
    /\ at' = "assemble"
    /\ UNCHANGED <<statements, currentLineNo, console, prgFile, i, hist>>
    /\ UNCHANGED <<runs, notAsmVars>>

\* startPass that clears the byte buffer at the start of each pass except
\* the final one, which then appends to what pass 0 left.
StartPassKeepsFinal ==
    /\ at = "startPass"
    /\ codePC' = 2049
    /\ pass' = started
    /\ binary' = IF started = 0 THEN <<>> ELSE binary
    /\ started' = started + 1
    /\ at' = "assemble"
    /\ UNCHANGED <<statements, currentLineNo, labels, console, prgFile, i, hist>>
    /\ UNCHANGED <<runs, notAsmVars>>

\* Assembler.startPass, called by main with pass 0 and then with pass 1.
StartPass ==
    /\ at = "startPass"
    /\ codePC' = 2049
    /\ pass' = started
    /\ binary' = <<>>
    /\ started' = started + 1
    /\ at' = "assemble"
    /\ UNCHANGED <<statements, currentLineNo, labels, console, prgFile, i, hist>>
    /\ UNCHANGED <<runs, notAsmVars>>

\* Assembler.assemble up to its loop: parse, emitBasicHeader.
EmitBasicHeader ==
    /\ at = "assemble"
    /\ binary' = binary \o emitBasicHeader
    /\ codePC' = codePC + Len(emitBasicHeader)
    /\ i' = 0
    /\ at' = "loop"
    /\ UNCHANGED <<statements, currentLineNo, pass, labels, console, prgFile, started, hist>>
    /\ UNCHANGED <<runs, notAsmVars>>

\* main after a return of Assembler.assemble
AfterAssemble == IF started = 1 THEN "startPass" ELSE "writePrg"

\* What one iteration prints: the diagnostics of assembleLine, its banner,
\* and 'Breaking out.' when it fails.
\* A diagnostic as Assembler.error prints it; the report of an uncaught
\* exception is printed by the runtime, without the prefix.
PrintedErr(ln, e) ==
    IF e = RangeError THEN [Printed(0, e) EXCEPT !.src = FALSE] ELSE Printed(ln, e)

Output(r, ln) ==
    [j \in 1..Len(r.errs) |-> PrintedErr(ln, r.errs[j])]
    \o (IF r.banner THEN <<Banner>> ELSE <<>>)
    \o (IF r.ok \/ Thrown(r.errs) THEN <<>> ELSE <<Printed(ln, Err("Breaking out.", ""))>>)

\* The state after an iteration whose assembleLine call did r and printed out.
Iteration(r, ln, out) ==
    /\ currentLineNo' = ln
    /\ labels' = r.labels
    /\ binary' = binary \o r.bytes
    /\ codePC' = codePC + Len(r.bytes)
    /\ console' = console \o out
    /\ hist' = Append(hist, [pass |-> pass, idx |-> i + 1, pc |-> codePC,
                             known |-> DOMAIN labels, mode |-> r.mode,
                             len |-> Len(r.bytes), bytes |-> r.bytes,
                             ok |-> r.ok, out |-> out])
    /\ IF r.ok THEN i' = i + 1 /\ at' = at
               ELSE i' = i /\ at' = (IF Thrown(r.errs) THEN "crashed" ELSE AfterAssemble)

Printing(r, ln) == Iteration(r, ln, Output(r, ln))

Calling(r) == Printing(r, IF r.entered THEN lineNo ELSE currentLineNo)

\* One iteration of the loop of Assembler.assemble: assembleLine on
\* statements[i], and the break with 'Breaking out.' when it fails.
AssembleLine ==
    /\ at = "loop"
    /\ i < Len(statements)
    /\ Calling(assembleLine(statements[i + 1], pass, labels, codePC))
    /\ UNCHANGED <<statements, pass, prgFile, started>>
    /\ UNCHANGED <<runs, notAsmVars>>

\* The loop of Assembler.assemble ends: assemble returns.
AssembleReturn ==
    /\ at = "loop"
    /\ i >= Len(statements)
    /\ at' = AfterAssemble
    /\ UNCHANGED <<statements, binary, currentLineNo, codePC, pass, labels, console,
                   prgFile, started, i, hist>>
    /\ UNCHANGED <<runs, notAsmVars>>

\* writeFileSync('test.prg', asm.prg(), null), the end of main.
WritePrg ==
    /\ at = "writePrg"
    /\ prgFile' = prg(binary)
    /\ at' = "exit"
    /\ UNCHANGED <<statements, binary, currentLineNo, codePC, pass, labels, console,
                   started, i, hist>>
    /\ UNCHANGED <<runs, notAsmVars>>

Next == StartPass \/ EmitBasicHeader \/ AssembleLine \/ AssembleReturn \/ WritePrg

Spec == Init /\ [][Next]_vars

(***************************************************************************)
(* The same source assembled again: main() runs a second time on the same  *)
(* file, with a new Assembler.                                             *)
(***************************************************************************)
MaxRerunLines == 2
MaxRuns == 2

RerunPrograms == UNION { [1..n -> Lines] : n \in 0..MaxRerunLines }

InitAgain ==
    /\ statements \in RerunPrograms
    /\ binary = <<>>
    /\ currentLineNo = 0
    /\ codePC = 0
    /\ pass = 0
    /\ labels = <<>>
    /\ console = <<>>
    /\ prgFile = <<>>
    /\ at = "startPass"
    /\ started = 0
    /\ i = 0
    /\ hist = <<>>
    /\ runs = <<>>
    /\ DriverIdle
    /\ DisIdle
    /\ MonIdle
    /\ DbgIdle

\* A second run of main() that goes on with the Assembler of the first.
MainAgainKeepsAssembler ==
    /\ at = "exit"
    /\ Len(runs) + 1 < MaxRuns
    /\ runs' = Append(runs, [prg |-> prgFile, console |-> console])
    /\ console' = <<>>
    /\ at' = "startPass"
    /\ started' = 0
    /\ i' = 0
    /\ hist' = <<>>
    /\ UNCHANGED <<statements, prgFile, binary, currentLineNo, codePC, pass, labels>>
    /\ UNCHANGED notAsmVars

\* main() is run again on the same file: new Assembler() has the field
\* initialisers of the class, test.prg is still what the run before wrote.
MainAgain ==
    /\ at = "exit"
    /\ Len(runs) + 1 < MaxRuns
    /\ runs' = Append(runs, [prg |-> prgFile, console |-> console])
    /\ binary' = <<>>
    /\ currentLineNo' = 0
    /\ codePC' = 0
    /\ pass' = 0
    /\ labels' = <<>>
    /\ console' = <<>>
    /\ at' = "startPass"
    /\ started' = 0
    /\ i' = 0
    /\ hist' = <<>>
    /\ UNCHANGED <<statements, prgFile>>
    /\ UNCHANGED notAsmVars

NextAgain == StartPass \/ EmitBasicHeader \/ AssembleLine \/ AssembleReturn \/ WritePrg \/ MainAgain

SpecAgain == InitAgain /\ [][NextAgain]_vars

(***************************************************************************)
(* main() on sources of data directives: at most MaxDirLines lines, each a *)
(* `!byte` with one expression of DirectiveExprs.                          *)
(***************************************************************************)
MaxDirLines == 2

DirectiveExprs ==
    { Unary("-", Literal(129)),                 \* -129
      Unary("-", Literal(128)),                 \* -128
      Unary("-", Literal(1)),                   \* -1
      Literal(255),                             \* 255
      Literal(256),                             \* 256
      Binary("*", Literal(3), Literal(4)),      \* 3 * 4
      Binary("/", Literal(7), Literal(2)),      \* 7 / 2
      Binary("/", Literal(1), Literal(0)),      \* 1 / 0
      Binary("%", Literal(5), Literal(0)) }     \* 5 % 0

DirectiveLines == { Line(NoLabel, EmitBytes("byte", <<e>>)) : e \in DirectiveExprs }

DirectivePrograms == UNION { [1..n -> DirectiveLines] : n \in 0..MaxDirLines }

InitDirectives ==
    /\ statements \in DirectivePrograms
    /\ binary = <<>>
    /\ currentLineNo = 0
    /\ codePC = 0
    /\ pass = 0
    /\ labels = <<>>
    /\ console = <<>>
    /\ prgFile = <<>>
    /\ at = "startPass"
    /\ started = 0
    /\ i = 0
    /\ hist = <<>>
    /\ runs = <<>>
    /\ DriverIdle
    /\ DisIdle
    /\ MonIdle
    /\ DbgIdle

SpecDirectives == InitDirectives /\ [][Next]_vars

(***************************************************************************)
(* main() on sources of binary includes: at most MaxBinLines lines, each a *)
(* `!binary "blob.bin"` with the size and offset of BinaryRanges (NullNode *)
(* for one left out), of a file of four bytes.                             *)
(***************************************************************************)
MaxBinLines == 2

BinaryRanges ==
    { <<NullNode, NullNode>>,           \* !binary "blob.bin"
      <<Literal(2), NullNode>>,         \* !binary "blob.bin", 2
      <<Literal(2), Literal(1)>>,       \* !binary "blob.bin", 2, 1
      <<Literal(0), Literal(4)>>,       \* !binary "blob.bin", 0, 4
      <<Literal(2), Literal(3)>>,       \* !binary "blob.bin", 2, 3
      <<NullNode, Literal(5)>> }        \* !binary "blob.bin", , 5 (offset only)

BinaryLines == { Line(NoLabel, BinaryInclude("blob.bin", r[1], r[2])) : r \in BinaryRanges }

BinaryPrograms == UNION { [1..n -> BinaryLines] : n \in 0..MaxBinLines }

InitBinary ==
    /\ statements \in BinaryPrograms
    /\ binary = <<>>
    /\ currentLineNo = 0
    /\ codePC = 0
    /\ pass = 0
    /\ labels = <<>>
    /\ console = <<>>
    /\ prgFile = <<>>
    /\ at = "startPass"
    /\ started = 0
    /\ i = 0
    /\ hist = <<>>
    /\ runs = <<>>
    /\ DriverIdle
    /\ DisIdle
    /\ MonIdle
    /\ DbgIdle

SpecBinary == InitBinary /\ [][Next]_vars

(***************************************************************************)
(* A run of the disassembler of part_008, one iteration of the loop of     *)
(* Disassembler.disassemble per step, on a file that starts with the load  *)
(* address $0801 and the BASIC stub and goes on with at most MaxBody bytes *)
(* of BodyBytes.                                                           *)
(***************************************************************************)
MaxBody == 3

\* $02 is no opcode of the 6502; $10, $60, $A9, $AD, $B1, $D0 are what the
\* sources of the assembler model put into a file.
BodyBytes == {2, 16, 96, 169, 173, 177, 208}

Files ==
    { prg(emitBasicHeader) \o body : body \in UNION { [1..n -> BodyBytes] : n \in 0..MaxBody } }

\* new Disassembler(prg)
InitDisasm ==
    /\ AsmIdle
    /\ DriverIdle
    /\ MonIdle
    /\ DbgIdle
    /\ disBuf \in Files
    /\ curOffs = 2 + 12
    /\ disAt = "loop"
    /\ listing = <<>>
    /\ disStarts = <<>>

\* const op = this.byte(); const decl = this.opToDecl[op]
curOp == readUInt8(disBuf, curOffs)
curDecls == DeclsOf(curOp)
curKey == CHOOSE key \in curDecls : TRUE
curIdx == indexOf(opcodes[curKey], curOp)

\* An iteration that reads the opcode byte at curOffs.
Reading ==
    /\ disAt = "loop"
    /\ curOffs < Len(disBuf)
    /\ disStarts' = Append(disStarts, curOffs)
    /\ UNCHANGED disBuf
    /\ UNCHANGED notDisVars

\* The byte is no opcode, or its column has no decoder: nothing is
\* printed and the loop goes on behind the byte.
DisSkip ==
    /\ Reading
    /\ IF curDecls = {} THEN TRUE ELSE curIdx = 9
    /\ curOffs' = curOffs + 1
    /\ UNCHANGED <<disAt, listing>>

\* A decoder reads its operand bytes and prints the instruction.
DisDecode ==
    /\ Reading
    /\ curDecls # {}
    /\ curIdx # 9
    /\ curOffs + DecoderBytes(curIdx) < Len(disBuf)
    /\ listing' = Append(listing, Decoded(disBuf, curOffs, curKey, curIdx))
    /\ curOffs' = curOffs + 1 + DecoderBytes(curIdx)
    /\ UNCHANGED disAt

\* A decoder reads past the end of the buffer: readUInt8 throws a
\* RangeError, which ends the run.
DisThrow ==
    /\ Reading
    /\ curDecls # {}
    /\ curIdx # 9
    /\ curOffs + DecoderBytes(curIdx) >= Len(disBuf)
    /\ disAt' = "thrown"
    /\ curOffs' = Len(disBuf)
    /\ UNCHANGED listing

\* The loop ends at the end of the buffer.
DisEnd ==
    /\ disAt = "loop"
    /\ curOffs >= Len(disBuf)
    /\ disAt' = "done"
    /\ UNCHANGED <<disBuf, curOffs, listing, disStarts>>
    /\ UNCHANGED notDisVars

NextDisasm == DisSkip \/ DisDecode \/ DisThrow \/ DisEnd

SpecDisasm == InitDisasm /\ [][NextDisasm]_vars


(***************************************************************************)
(* Vocabulary of the properties.  hist[k] is the k-th call of assembleLine:*)
(* its pass, the line it was given (idx), codePC (pc) and the defined      *)
(* labels (known) on entry, the encoding that emitted (mode), the number   *)
(* of bytes it emitted (len), its result (ok) and what it printed (out).   *)
(***************************************************************************)
Calls == 1..Len(hist)
CallsOf(p) == { k \in Calls : hist[k].pass = p }
LineOf(k) == statements[hist[k].idx]
HasLabel(line) == line.type = "line" /\ line.label # NoLabel
IsInsn(line) == line.type = "line" /\ line.stmt.type = "insn"

\* The operand expression of an instruction, NullNode if it has none.
Operand(insn) ==
    CASE insn.imm # NullNode -> insn.imm
      [] insn.abs # NullNode -> insn.abs
      [] insn.absx # NullNode -> insn.absx
      [] insn.absy # NullNode -> insn.absy
      [] insn.absind # NullNode -> insn.absind
      [] OTHER -> NullNode

\* The identifiers of an expression.
RECURSIVE Idents(_)
Idents(node) ==
    CASE node.type = "binary" -> Idents(node.left) \cup Idents(node.right)
      [] node.type = "UnaryExpression" -> Idents(node.argument)
      [] node.type = "ident" -> {node.name}
      [] OTHER -> {}

\* The names the source defines as labels.
DefinedNames == { statements[j].label : j \in { h \in 1..Len(statements) : HasLabel(statements[h]) } }

\* The call of pass p on line idx, 0 if the pass did not get there.
CallOn(p, idx) ==
    IF \E k \in CallsOf(p) : hist[k].idx = idx
    THEN CHOOSE k \in CallsOf(p) : hist[k].idx = idx
    ELSE 0

\* Pass p is stable: every line it assembled got the same number of bytes
\* and the same address as in pass p - 1 (so no label moved and no
\* instruction changed its width).
Stable(p) ==
    /\ p >= 1
    /\ \A k \in CallsOf(p) :
          /\ CallOn(p - 1, hist[k].idx) # 0
          /\ hist[CallOn(p - 1, hist[k].idx)].len = hist[k].len
          /\ hist[CallOn(p - 1, hist[k].idx)].pc = hist[k].pc

Printed_(kind) == \E j \in 1..Len(console) : console[j].kind = kind

\* No call of assembleLine so far has failed or printed anything.
AllOk == \A k \in Calls : hist[k].ok /\ hist[k].out = <<>>

(***************************************************************************)
(* C1: every run ends after at most the pass bound (16) of passes, and if  *)
(* no pass was stable the output contains a "did not converge" diagnostic. *)
(* main() runs two passes and has no such diagnostic: the formula fails.   *)
(***************************************************************************)
C1_ConvergesOrReports ==
    (at = "exit" /\ AllOk) =>
        /\ started <= 16
        /\ (~(\E p \in 1..(started - 1) : Stable(p)) => Printed_("did not converge"))

(***************************************************************************)
(* C2: when the run ends without a convergence error, the last pass was    *)
(* stable: no label value and no instruction width differs from the pass   *)
(* before it.                                                              *)
(***************************************************************************)
C2_LastPassStable ==
    (at = "exit" /\ AllOk /\ ~Printed_("did not converge")) => Stable(started - 1)

(***************************************************************************)
(* C3: in every pass the value of a label is codePC at its defining line   *)
(* in that same pass (in the last pass: the address at which what follows  *)
(* the label is emitted).                                                  *)
(***************************************************************************)
C3_LabelIsPassPC ==
    AllOk =>
        \A k \in CallsOf(pass) :
            HasLabel(LineOf(k)) =>
                /\ LineOf(k).label \in DOMAIN labels
                /\ labels[LineOf(k).label].addr = hist[k].pc


(***************************************************************************)
(* Vocabulary for the properties of single instructions.                   *)
(***************************************************************************)
RowOf(line) == opcodes[toUpperCase(line.stmt.mnemonic)]
IsBranch(line) ==
    IsInsn(line) /\ line.stmt.abs # NullNode /\ OpAt(RowOf(line), 11) # Null
    /\ OpAt(RowOf(line), 1) = Null /\ OpAt(RowOf(line), 4) = Null

\* The element of Assembler.binary that holds the byte at address a.
ByteAt(a) == binary[a - 2049 + 1]

\* The value of the operand of line in pass p with the labels as they are.
OperandValue(line, p) == evalExpr(Operand(line.stmt), p, labels)

\* The distance a branch at address pc has to its target.
Distance(target, pc) == target.n - (pc + 2)

(***************************************************************************)
(* C4: for every emitted branch the operand byte is                        *)
(* (target - (branch-pc + 2)) mod 256 and |target - (branch-pc + 2)| <= 127*)
(* (branch-pc is the address of the opcode).  The code never checks the    *)
(* range, so the second half fails.                                        *)
(***************************************************************************)
C4_BranchOffset ==
    \A k \in CallsOf(1) :
        (pass = 1 /\ IsBranch(LineOf(k)) /\ hist[k].mode = "branch"
         /\ OperandValue(LineOf(k), 1).k = "num")
            => /\ ByteAt(hist[k].pc + 1)
                    = Num(Distance(OperandValue(LineOf(k), 1), hist[k].pc) % 256)
               /\ Distance(OperandValue(LineOf(k), 1), hist[k].pc) <= 127
               /\ Distance(OperandValue(LineOf(k), 1), hist[k].pc) >= -127

(***************************************************************************)
(* C5: an operand whose value is in 0..255 in every pass, on a mnemonic    *)
(* that has a zero-page encoding for its index mode, is emitted in the     *)
(* two-byte zero-page encoding.  The code has no zero-page,X or            *)
(* zero-page,Y check: "lda $10,x" gets the three-byte absolute,X.          *)
(***************************************************************************)
InZeroPage(v) == v.k = "num" /\ v.d = 1 /\ v.n \in 0..255

\* The table column of the zero-page encoding for the operand's index mode.
ZeroPageColumn(insn) ==
    CASE insn.abs # NullNode -> 1
      [] insn.absx # NullNode -> 2
      [] insn.absy # NullNode -> 3
      [] OTHER -> 0

C5_NarrowsToZeroPage ==
    \A k \in CallsOf(1) :
        (pass = 1 /\ IsInsn(LineOf(k))
         /\ ZeroPageColumn(LineOf(k).stmt) # 0
         /\ OpAt(RowOf(LineOf(k)), ZeroPageColumn(LineOf(k).stmt)) # Null
         /\ InZeroPage(OperandValue(LineOf(k), 0))
         /\ InZeroPage(OperandValue(LineOf(k), 1)))
            => hist[k].ok /\ hist[k].len = 2

(***************************************************************************)
(* C6: a branch whose target is out of the signed 8-bit range yields       *)
(* exactly one (range error) diagnostic and emits nothing.  The code       *)
(* prints nothing and emits opcode and a truncated offset.                 *)
(***************************************************************************)
C6_OutOfRangeBranch ==
    \A k \in CallsOf(1) :
        (pass = 1 /\ IsBranch(LineOf(k))
         /\ OperandValue(LineOf(k), 1).k = "num"
         /\ (Distance(OperandValue(LineOf(k), 1), hist[k].pc) > 127
             \/ Distance(OperandValue(LineOf(k), 1), hist[k].pc) < -128))
            => Len(hist[k].out) = 1 /\ hist[k].len = 0

(***************************************************************************)
(* C7: an instruction whose operand is unresolved in a pass (a reference   *)
(* to a label not yet defined) emits the widest encoding its mnemonic has  *)
(* for the operand, never a narrower one.  In pass 0 the code evaluates    *)
(* every identifier to 0 and so picks zero page.                           *)
(***************************************************************************)
\* The length of the widest encoding the table has for the operand.
WidestLen(line) ==
    IF line.stmt.imm # NullNode THEN 2
    ELSE IF line.stmt.abs # NullNode
         THEN IF OpAt(RowOf(line), 4) # Null THEN 3 ELSE 2
         ELSE IF Operand(line.stmt) # NullNode THEN 3 ELSE 1

C7_UnresolvedIsWidest ==
    \A k \in CallsOf(0) :
        (IsInsn(LineOf(k))
         /\ Idents(Operand(LineOf(k).stmt)) \subseteq DefinedNames
         /\ ~(Idents(Operand(LineOf(k).stmt)) \subseteq hist[k].known))
            => hist[k].ok /\ hist[k].len = WidestLen(LineOf(k))


(***************************************************************************)
(* C8: an identifier that cannot be resolved gives no error in the         *)
(* non-final pass and an error at its use in the final pass.  The first    *)
(* half holds; the second fails for a name inherited from Object.prototype *)
(* ("jmp constructor" assembles silently) and for a use behind a line at   *)
(* which the final pass breaks out.                                        *)
(***************************************************************************)
RECURSIVE IdentsOfList(_)
IdentsOfList(exprList) ==
    IF exprList = <<>> THEN {} ELSE Idents(Head(exprList)) \cup IdentsOfList(Tail(exprList))

\* The identifiers a line evaluates.
UsedIdents(line) ==
    IF line.type # "line" \/ line.stmt = NullNode THEN {}
    ELSE CASE line.stmt.type = "insn" -> Idents(Operand(line.stmt))
           [] line.stmt.type = "setpc" -> Idents(line.stmt.pc)
           [] OTHER -> IdentsOfList(line.stmt.values)

Reports(k, kind, arg) ==
    \E j \in 1..Len(hist[k].out) : hist[k].out[j].kind = kind /\ hist[k].out[j].arg = arg

C8_UnresolvedIsFinalPassError ==
    /\ \A k \in CallsOf(0) : \A n \in UsedIdents(LineOf(k)) : ~Reports(k, "Undefined label", n)
    /\ at = "exit" =>
          \A idx \in 1..Len(statements) :
              \A n \in UsedIdents(statements[idx]) \ DefinedNames :
                  /\ CallOn(1, idx) # 0
                  /\ Reports(CallOn(1, idx), "Undefined label", n)

(***************************************************************************)
(* C9 as stated: at the start of each pass every label is undefined, and   *)
(* a label is defined in a pass only once its defining line has been       *)
(* processed in that pass.  startPass does not touch the label table, so   *)
(* this fails at the start of pass 1.                                      *)
(***************************************************************************)
DefinedInPass(n, p) ==
    \E k \in CallsOf(p) : HasLabel(LineOf(k)) /\ LineOf(k).label = n

Defines(k, n) ==
    /\ hist[k].pass = 0
    /\ HasLabel(LineOf(k))
    /\ LineOf(k).label = n
    /\ ~Reports(k, "Label already defined", n)

Redefines(k) ==
    /\ hist[k].pass = 0
    /\ HasLabel(LineOf(k))
    /\ LineOf(k).label \in hist[k].known

C10_NoRedefinition ==
    /\ \A k \in Calls :
          Redefines(k) =>
              /\ Reports(k, "Label already defined", LineOf(k).label)
              /\ ~hist[k].ok
              /\ hist[k].len = 0
              /\ LineOf(k).label \in DOMAIN labels
              /\ \E h \in 1..(k - 1) :
                    /\ Defines(h, LineOf(k).label)
                    /\ labels[LineOf(k).label].addr = hist[h].pc
    /\ \A k \in CallsOf(1) :
          /\ \A j \in 1..Len(hist[k].out) : hist[k].out[j].kind # "Label already defined"
          /\ hist[k].known = DOMAIN labels

\* The run has ended; pass 0 met a second definition, and pass 1 has
\* processed that same line again.
C10_Witness ==
    /\ at = "exit"
    /\ \E k \in Calls :
          /\ Redefines(k)
          /\ hist[k].pc # hist[CHOOSE h \in Calls : Defines(h, LineOf(k).label)].pc
          /\ CallOn(1, hist[k].idx) # 0

(***************************************************************************)
(* C11: whether another pass is run depends only on the label-value and    *)
(* width changes of the pass just completed: after a pass that can be      *)
(* compared with the one before it, another pass runs exactly when that    *)
(* pass changed something, and a pass that changed nothing is the last one *)
(* even when its diagnostics differ from those of the pass before.  main   *)
(* runs two passes whatever they did: the first half fails.                *)
(***************************************************************************)
\* What pass p printed on line idx, <<>> if it did not get there.
PassOut(p, idx) == IF CallOn(p, idx) = 0 THEN <<>> ELSE hist[CallOn(p, idx)].out

\* The diagnostics of pass p differ from those of pass p - 1.
DiagsDiffer(p) == \E idx \in 1..Len(statements) : PassOut(p, idx) # PassOut(p - 1, idx)

C11_PassesFollowChanges ==
    at = "exit" =>
        \A p \in 1..(started - 1) :
            /\ AllOk => ((started > p + 1) <=> ~Stable(p))
            /\ (Stable(p) /\ DiagsDiffer(p)) => started = p + 1

(***************************************************************************)
(* The assembler driver of sections 4.4 - 4.8 of the specification.        *)
(*                                                                         *)
(* Source statements: a label, an instruction with one operand (of a       *)
(* mnemonic that has a zero-page and an absolute encoding), a !byte, an    *)
(* !if with a body, a macro definition and a macro call.  An expression is *)
(* a literal or an identifier.                                             *)
(***************************************************************************)
DLit(v) == [e |-> "lit", v |-> v, name |-> ""]
DId(name) == [e |-> "id", v |-> 0, name |-> name]

DLabel(name) == [t |-> "label", name |-> name, expr |-> DLit(0), body |-> <<>>]
DInsn(e) == [t |-> "insn", name |-> "", expr |-> e, body |-> <<>>]
DByte(e) == [t |-> "byte", name |-> "", expr |-> e, body |-> <<>>]
DIf(cond, body) == [t |-> "if", name |-> "", expr |-> cond, body |-> body]
DMacro(name, body) == [t |-> "macro", name |-> name, expr |-> DLit(0), body |-> body]
DCall(name) == [t |-> "call", name |-> name, expr |-> DLit(0), body |-> <<>>]

\* SourceLocation (file, line, column) of statement k of a block: a
\* top-level statement is on line k, a statement of the body of the block
\* that starts at location base follows it on the same line.
Loc(base, k) ==
    IF base.line = 0 THEN [file |-> 1, line |-> k, col |-> 1]
    ELSE [file |-> base.file, line |-> base.line, col |-> base.col + k]

TopLevel == [file |-> 1, line |-> 0, col |-> 0]

\* The order of diagnostics: by (file, line, column).
LocBefore(a, b) ==
    \/ a.file < b.file
    \/ a.file = b.file /\ a.line < b.line
    \/ a.file = b.file /\ a.line = b.line /\ a.col < b.col

\* Evaluation returns a concrete value or the "unresolved" marker.
Unresolved == [ok |-> FALSE, v |-> 0]
Resolved(v) == [ok |-> TRUE, v |-> v]

\* A label is looked up under the invocation index inv of the macro call
\* being expanded (0 outside a call), then as a label outside any call.
\* Labels are visible after their defining statement in the same pass.
Lookup(name, inv, symbols) ==
    IF <<name, inv>> \in DOMAIN symbols THEN Resolved(symbols[<<name, inv>>])
    ELSE IF <<name, 0>> \in DOMAIN symbols THEN Resolved(symbols[<<name, 0>>])
    ELSE Unresolved

Evaluate(e, inv, symbols) ==
    IF e.e = "lit" THEN Resolved(e.v) ELSE Lookup(e.name, inv, symbols)

\* f with key bound to v
Define(f, key, v) == [x \in DOMAIN f \cup {key} |-> IF x = key THEN v ELSE f[x]]

\* The state of a pass at its start: labels are reset to Undefined, segment
\* buffer and debug-info are cleared, the PC is the default load address.
LoadAddress == 2049

BlankPass ==
    [pc |-> LoadAddress, image |-> <<>>, debug |-> <<>>, symbols |-> <<>>,
     macros |-> <<>>, invocations |-> 0, unstable |-> FALSE, diags |-> <<>>,
     widths |-> <<>>, processed |-> {}]

\* An emitter that classifies every byte of a statement as role rest.
EmitNoStart(ps, loc, bytes, first, rest) ==
    [ps EXCEPT !.image = @ \o bytes,
               !.debug = @ \o [j \in 1..Len(bytes) |-> [loc |-> loc, role |-> rest]],
               !.pc = @ + Len(bytes),
               !.widths = Append(@, Len(bytes))]

\* Emitter and debug-info builder: the bytes of one statement, the first
\* with role first and the others with role rest.
Emit(ps, loc, bytes, first, rest) ==
    [ps EXCEPT !.image = @ \o bytes,
               !.debug = @ \o [j \in 1..Len(bytes) |->
                                 [loc |-> loc, role |-> IF j = 1 THEN first ELSE rest]],
               !.pc = @ + Len(bytes),
               !.widths = Append(@, Len(bytes))]

\* The BASIC stub "SYS 2061", emitted when the source does not set the PC
\* before its first emission (no statement of the model does).
BasicStub == <<12, 8, 0, 0, 158, 50, 48, 54, 49, 0, 0, 0>>

EmptyPass == Emit(BlankPass, TopLevel, BasicStub, "data", "data")

\* An error is a hard error in the final pass only.
Diag(ps, final, loc, message) ==
    IF final
    THEN [ps EXCEPT !.diags = Append(@, [severity |-> "error", message |-> message, loc |-> loc])]
    ELSE ps

\* A label statement: the label's value is the PC at its definition site;
\* a name may not be defined twice in one pass.
RunLabel(stmt, loc, inv, final, ps) ==
    IF <<stmt.name, inv>> \in DOMAIN ps.symbols
    THEN Diag(ps, final, loc, "duplicate label")
    ELSE [ps EXCEPT !.symbols = Define(@, <<stmt.name, inv>>, ps.pc)]

\* The narrowest encoding that holds the value; the widest when the operand
\* is unresolved.
InsnBytes(r) ==
    IF r.ok /\ r.v \in 0..255 THEN <<165, r.v>>
    ELSE IF r.ok THEN <<173, r.v % 256, (r.v \div 256) % 256>>
    ELSE <<173, 0, 0>>

RunInsn(r, loc, final, ps) ==
    Emit(IF r.ok THEN ps ELSE Diag(ps, final, loc, "unresolved"),
         loc, InsnBytes(r), "instruction-start", "instruction-continuation")

RunByte(r, loc, final, ps) ==
    Emit(IF r.ok THEN ps ELSE Diag(ps, final, loc, "unresolved"),
         loc, <<IF r.ok THEN r.v % 256 ELSE 0>>, "data", "data")

RunMacro(stmt, loc, ps) ==
    [ps EXCEPT !.macros = Define(@, stmt.name, [body |-> stmt.body, loc |-> loc])]

RECURSIVE RunBlock(_, _, _, _, _, _)

\* An !if that takes its body when its condition is unresolved.
RunIfTakesUnresolved(stmt, r, loc, inv, final, ps) ==
    IF ~r.ok \/ r.v # 0 THEN RunBlock(stmt.body, 1, loc, inv, final, ps) ELSE ps

\* An !if whose condition evaluated to r: an unresolved condition leaves
\* the body not taken and flags instability, and is an error in the final
\* pass; otherwise the body is taken when the value is non-zero.
RunIf(stmt, r, loc, inv, final, ps) ==
    IF ~r.ok
    THEN IF final THEN Diag(ps, TRUE, loc, "unresolved")
         ELSE [ps EXCEPT !.unstable = TRUE]
    ELSE IF r.v # 0 THEN RunBlock(stmt.body, 1, loc, inv, final, ps)
    ELSE ps

\* A macro call that defines the labels of the body in the scope of the
\* call site.
RunCallSharesScope(stmt, loc, final, ps) ==
    IF stmt.name \in DOMAIN ps.macros
    THEN RunBlock(ps.macros[stmt.name].body, 1, ps.macros[stmt.name].loc,
                  0, final, [ps EXCEPT !.invocations = @ + 1])
    ELSE Diag(ps, final, loc, "unknown macro")

\* A macro call: a fresh invocation index, under which the labels of the
\* body are defined.
RunCall(stmt, loc, final, ps) ==
    IF stmt.name \in DOMAIN ps.macros
    THEN RunBlock(ps.macros[stmt.name].body, 1, ps.macros[stmt.name].loc,
                  ps.invocations + 1, final, [ps EXCEPT !.invocations = @ + 1])
    ELSE Diag(ps, final, loc, "unknown macro")

\* One statement at location loc inside invocation inv.
RunStmt(stmt, loc, inv, final, ps) ==
    CASE stmt.t = "label" -> RunLabel(stmt, loc, inv, final, ps)
      [] stmt.t = "insn" -> RunInsn(Evaluate(stmt.expr, inv, ps.symbols), loc, final, ps)
      [] stmt.t = "byte" -> RunByte(Evaluate(stmt.expr, inv, ps.symbols), loc, final, ps)
      [] stmt.t = "if" -> RunIf(stmt, Evaluate(stmt.expr, inv, ps.symbols), loc, inv, final, ps)
      [] stmt.t = "macro" -> RunMacro(stmt, loc, ps)
      [] stmt.t = "call" -> RunCall(stmt, loc, final, ps)

\* ps with the statement at loc, reached inside invocation inv, recorded.
Processing(ps, loc, inv) == [ps EXCEPT !.processed = @ \cup {<<loc, inv>>}]

\* The statements of a block from the k-th on, in source order.
RunBlock(stmts, k, base, inv, final, ps) ==
    IF k > Len(stmts) THEN ps
    ELSE RunBlock(stmts, k + 1, base, inv, final,
                  RunStmt(stmts[k], Loc(base, k), inv, final,
                          Processing(ps, Loc(base, k), inv)))

\* One pass over the source.
RunPass(source, final) == RunBlock(source, 1, TopLevel, 0, final, EmptyPass)

\* The cap on the number of passes ("e.g. 16").
PassBound == 16

\* A pass is stable if no label's value and no instruction's width differs
\* from the pass before and it did not flag instability; the first pass
\* has no pass before it.
PassStable(r, prev, first) ==
    /\ ~first
    /\ ~r.unstable
    /\ r.symbols = prev.symbols
    /\ r.widths = prev.widths

\* The diagnostics in the order of the AssembleResult: by location, and in
\* the order produced where the location is the same.
RECURSIVE InsertDiag(_, _)
InsertDiag(d, sorted) ==
    IF sorted = <<>> THEN <<d>>
    ELSE IF LocBefore(Head(sorted).loc, d.loc)
         THEN <<Head(sorted)>> \o InsertDiag(d, Tail(sorted))
         ELSE <<d>> \o sorted

RECURSIVE SortDiags(_)
SortDiags(ds) == IF ds = <<>> THEN <<>> ELSE InsertDiag(Head(ds), SortDiags(Tail(ds)))

DidNotConverge == [severity |-> "error", message |-> "did not converge", loc |-> TopLevel]

\* An AssembleResult with the diagnostics in the order produced.
AssembleResultAsProduced(r, converged) ==
    [programBytes |-> <<LoadAddress % 256, LoadAddress \div 256>> \o r.image,
     diagnostics |-> r.diags \o (IF converged THEN <<>> ELSE <<DidNotConverge>>),
     debugInfo |-> r.debug]

\* AssembleResult: the image prefixed with its load address in
\* little-endian form, the diagnostics, the debug-info snapshot.
AssembleResult(r, converged) ==
    [programBytes |-> <<LoadAddress % 256, LoadAddress \div 256>> \o r.image,
     diagnostics |-> SortDiags(r.diags \o (IF converged THEN <<>> ELSE <<DidNotConverge>>)),
     debugInfo |-> r.debug]

(***************************************************************************)
(* The sources the driver assembles: at most MaxStmts statements of        *)
(* DriverForms.                                                            *)
(***************************************************************************)
MaxStmts == 3

DriverForms ==
    { DLabel("a"),                                          \* a:
      DInsn(DId("a")),                                      \*    lda a
      DInsn(DLit(16)),                                      \*    lda $10
      DByte(DId("b")),                                      \*    !byte b
      DIf(DId("a"), <<DLabel("c"), DInsn(DId("c"))>>),      \*    !if (a) { c: lda c }
      DIf(DLit(0), <<DByte(DLit(1))>>),                     \*    !if (0) { !byte 1 }
      DMacro("m", <<DLabel("l"), DInsn(DId("l")), DByte(DId("b"))>>),
                                                            \*    !macro m() { l: lda l : !byte b }
      DCall("m") }                                          \*    +m()

DriverPrograms == UNION { [1..n -> DriverForms] : n \in 0..MaxStmts }

InitDriver ==
    /\ AsmIdle
    /\ DisIdle
    /\ MonIdle
    /\ DbgIdle
    /\ drvSource \in DriverPrograms
    /\ drvAt = "idle"
    /\ drvPass = 0
    /\ drvFinal = FALSE
    /\ drvPrev = <<>>
    /\ drvLog = <<>>
    /\ drvResult = <<>>

\* assemble() is called.
DrvBegin ==
    /\ drvAt = "idle"
    /\ drvAt' = "pass"
    /\ drvPass' = 1
    /\ drvFinal' = (PassBound <= 1)
    /\ UNCHANGED <<drvSource, drvPrev, drvLog, drvResult>>
    /\ UNCHANGED notDriverVars

LogEntry(r, stable) == [pass |-> drvPass, final |-> drvFinal, stable |-> stable, result |-> r]

\* After a resolution pass that produced r: on instability another pass,
\* up to the bound; the pass after a stable one, and the pass at the bound,
\* is the final pass.
ResolutionDone(r, stable) ==
    /\ drvPrev' = r
    /\ drvLog' = Append(drvLog, LogEntry(r, stable))
    /\ drvPass' = drvPass + 1
    /\ drvFinal' = (stable \/ drvPass + 1 >= PassBound)
    /\ UNCHANGED <<drvSource, drvAt, drvResult>>

ResolutionStep(r) == ResolutionDone(r, PassStable(r, drvPrev, drvPass = 1))

DrvResolutionPass ==
    /\ drvAt = "pass"
    /\ ~drvFinal
    /\ ResolutionStep(RunPass(drvSource, FALSE))
    /\ UNCHANGED notDriverVars

FinalDone(r, stable) ==
    /\ drvPrev' = r
    /\ drvLog' = Append(drvLog, LogEntry(r, stable))
    /\ drvAt' = "report"
    /\ UNCHANGED <<drvSource, drvPass, drvFinal, drvResult>>

FinalStep(r) == FinalDone(r, PassStable(r, drvPrev, drvPass = 1))

\* The final pass: a resolution pass in which what is still unresolved is a
\* hard error.
DrvFinalPass ==
    /\ drvAt = "pass"
    /\ drvFinal
    /\ FinalStep(RunPass(drvSource, TRUE))
    /\ UNCHANGED notDriverVars

\* The final pass was run because the pass before it was stable.
Converged == Len(drvLog) >= 2 /\ drvLog[Len(drvLog) - 1].stable

\* assemble() returns its AssembleResult.
DrvReturn ==
    /\ drvAt = "report"
    /\ drvResult' = AssembleResult(drvPrev, Converged)
    /\ drvAt' = "done"
    /\ UNCHANGED <<drvSource, drvPass, drvFinal, drvPrev, drvLog>>
    /\ UNCHANGED notDriverVars

NextDriver == DrvBegin \/ DrvResolutionPass \/ DrvFinalPass \/ DrvReturn

SpecDriver == InitDriver /\ [][NextDriver]_vars

(***************************************************************************)
(* Vocabulary of the properties of the driver.  drvLog[p] is pass p: its   *)
(* number, whether it was the final pass, whether it was stable, and its   *)
(* result (symbols, image, debug-info, diagnostics, the statements it      *)
(* processed).                                                             *)
(***************************************************************************)
Passes == 1..Len(drvLog)
TopStmts == 1..Len(drvSource)
TopLoc(j) == Loc(TopLevel, j)

\* Statement j is an !if whose condition names a label that no statement
\* before it defines: the condition cannot be evaluated, in any pass.
CondUnresolved(j) ==
    /\ drvSource[j].t = "if"
    /\ drvSource[j].expr.e = "id"
    /\ ~\E h \in 1..(j - 1) :
          drvSource[h].t = "label" /\ drvSource[h].name = drvSource[j].expr.name

\* Pass p has a diagnostic with this message at this location.
PassReports(p, loc, message) ==
    \E d \in 1..Len(drvLog[p].result.diags) :
        /\ drvLog[p].result.diags[d].loc = loc
        /\ drvLog[p].result.diags[d].message = message
        /\ drvLog[p].result.diags[d].severity = "error"

BodyLabel(j, k) ==
    /\ drvSource[j].t = "macro"
    /\ k \in 1..Len(drvSource[j].body)
    /\ drvSource[j].body[k].t = "label"

\* the invocations of pass p that expanded the macro defined by statement j
InvocationsOf(p, j) ==
    { inv \in 1..drvLog[p].result.invocations :
        \E k \in 1..Len(drvSource[j].body) :
            <<Loc(TopLoc(j), k), inv>> \in drvLog[p].result.processed }

RECURSIVE DigitsValue(_, _)
DigitsValue(digits, b) ==
    IF digits = <<>> THEN 0
    ELSE IF digits[Len(digits)] >= b \/ DigitsValue(SubSeq(digits, 1, Len(digits) - 1), b) < 0
         THEN -1
         ELSE DigitsValue(SubSeq(digits, 1, Len(digits) - 1), b) * b + digits[Len(digits)]

\* an operand text read back: "$" starts a hexadecimal literal, a literal
\* without prefix is decimal
TextValue(text) == DigitsValue(text.digits, IF text.dollar THEN 16 ELSE 10)

\* the modes a disassembly may show for the operand form of the source
SourceModes(line) ==
    CASE line.stmt.imm # NullNode -> {"imm"}
      [] line.stmt.abs # NullNode -> IF IsBranch(line) THEN {"branch"} ELSE {"zp", "abs"}
      [] line.stmt.absx # NullNode -> {"zpx", "absx"}
      [] line.stmt.absy # NullNode -> {"zpy", "absy"}
      [] line.stmt.absind # NullNode -> {"ind"}
      [] OTHER -> {"single"}

\* entry d of a disassembly is the instruction that call k assembled
Disassembles(d, k) ==
    /\ d.addr = hist[k].pc
    /\ d.mnemonic = toUpperCase(LineOf(k).stmt.mnemonic)
    /\ d.mode \in SourceModes(LineOf(k))
    /\ Operand(LineOf(k).stmt) # NullNode => Num(TextValue(d.text)) = OperandValue(LineOf(k), 1)

RoundTrips(lst) ==
    \A k \in CallsOf(1) :
        (IsInsn(LineOf(k)) /\ hist[k].len > 0) =>
            \E j \in 1..Len(lst) : Disassembles(lst[j], k)

C14_RoundTrip == (at = "exit" /\ started = 2 /\ AllOk) => RoundTrips(disassemble(prgFile))

(***************************************************************************)
(* C15: the file written starts with the load address, low byte first:     *)
(* read that way the first two bytes give $0801, the address at which      *)
(* every pass starts; the file ends where the PC of the last pass ended;   *)
(* and the byte at offset 2 + k is the byte assembled at address           *)
(* load-address + k: the header at the load address, and what each line of *)
(* the last pass emitted at the address the line was assembled at (each    *)
(* emitted number as the unsigned byte Buffer.from makes of it).           *)
(***************************************************************************)
\* the byte of the file at offset 2 + k
FileByte(k) == readUInt8(prgFile, 2 + k)

C15_PrgIsLoadAddressThenImage ==
    at = "exit" =>
        /\ Len(prgFile) >= 2
        /\ readUInt8(prgFile, 0) = 2049 % 256
        /\ readUInt8(prgFile, 1) = 2049 \div 256
        /\ loadAddress(prgFile) + (Len(prgFile) - 2) = codePC
        /\ \A j \in 1..Len(emitBasicHeader) : FileByte(j - 1) = ToUint8(emitBasicHeader[j])
        /\ \A k \in CallsOf(1) : \A j \in 1..hist[k].len :
              FileByte(hist[k].pc - loadAddress(prgFile) + j - 1) = ToUint8(hist[k].bytes[j])

C15_Witness ==
    /\ at = "exit"
    /\ \E k \in CallsOf(1) : hist[k].len = 3 /\ hist[k].pc > 2061

(***************************************************************************)
(* C16: when no "* =" line comes before the first line that emits, the     *)
(* file has load address $0801 and begins with the BASIC stub, and the     *)
(* decimal operand of its SYS, as parseBasicSysAddress recovers it, is the *)
(* address of the first user instruction.  The operand is the constant     *)
(* 2061, the address right after the stub: it is the address of the first  *)
(* byte the source emits, which is the first instruction only if no data   *)
(* comes before it ("!byte $ad" then "a: rts" has its RTS at 2062).        *)
(***************************************************************************)
\* the lines of the last pass that emitted something
Emitting == { k \in CallsOf(1) : hist[k].len > 0 }
EmittingInsns == { k \in Emitting : IsInsn(LineOf(k)) }

\* the first call of a non-empty set of calls
FirstOf(ks) == CHOOSE k \in ks : \A h \in ks : hist[k].idx <= hist[h].idx

IsSetPc(line) == line.type = "line" /\ line.stmt.type = "setpc"

\* no "* =" line before the line of call k
NoSetPcBefore(k) == \A h \in 1..(hist[k].idx - 1) : ~IsSetPc(statements[h])

HasStub ==
    /\ loadAddress(prgFile) = 2049
    /\ \A j \in 1..Len(emitBasicHeader) : FileByte(j - 1) = ToUint8(emitBasicHeader[j])

C16_SysIsFirstInstruction ==
    (at = "exit" /\ EmittingInsns # {} /\ NoSetPcBefore(FirstOf(EmittingInsns))) =>
        /\ HasStub
        /\ parseBasicSysAddress(prgFile) = hist[FirstOf(EmittingInsns)].pc

C16_SysIsFirstEmission ==
    (at = "exit" /\ Emitting # {} /\ NoSetPcBefore(FirstOf(Emitting))) =>
        /\ HasStub
        /\ parseBasicSysAddress(prgFile) = hist[FirstOf(Emitting)].pc

C16_Witness ==
    /\ at = "exit"
    /\ Emitting # {}
    /\ NoSetPcBefore(FirstOf(Emitting))
    /\ hist[FirstOf(Emitting)].idx > 1
    /\ FirstOf(Emitting) \notin EmittingInsns
    /\ EmittingInsns # {}

(***************************************************************************)
(* C17: in the result of assemble() every byte of the image has a          *)
(* debug-info entry, and of the bytes each instruction statement emitted   *)
(* the first is classified instruction-start (the others                   *)
(* instruction-continuation, the bytes of !byte data).                     *)
(***************************************************************************)
\* the statement of the source at a location: a top-level statement, or a
\* statement of the body of one
StmtAt(loc) ==
    IF loc.col = 1 THEN drvSource[loc.line] ELSE drvSource[loc.line].body[loc.col - 1]

\* the offset in the image of the first byte of the n-th emission of the final pass
RECURSIVE StartOf(_)
StartOf(n) == IF n = 1 THEN 1 ELSE StartOf(n - 1) + drvPrev.widths[n - 1]

\* the emissions of the final pass after the BASIC stub
UserEmissions == 2..Len(drvPrev.widths)

RoleAt(n, j) == drvResult.debugInfo[StartOf(n) + j].role
EmittedBy(n) == StmtAt(drvResult.debugInfo[StartOf(n)].loc)

Diagnostics(out) == { out[j] : j \in 1..Len(out) }

Occurrences(ds, d) == Cardinality({ j \in 1..Len(ds) : ds[j] = d })

\* the sequence ds is in the order of the locations
Ordered(ds) == \A j \in 1..(Len(ds) - 1) : ~LocBefore(ds[j + 1].loc, ds[j].loc)

\* what the final pass and the convergence test produced, in that order
Produced == drvPrev.diags \o (IF Converged THEN <<>> ELSE <<DidNotConverge>>)

C20_ContinuesAfterError ==
    at = "exit" =>
        \A k \in Calls :
            ~hist[k].ok =>
                /\ hist[k].idx < Len(statements) => CallOn(hist[k].pass, hist[k].idx + 1) # 0
                /\ IsInsn(LineOf(k)) => hist[k].len = WidestLen(LineOf(k))

(***************************************************************************)
(* Vocabulary for the properties of a disassembler run.                    *)
(***************************************************************************)
\* the address of the byte at an offset of the file
AddrOf(offs) == loadAddress(disBuf) + offs - 2
DisStarts == { disStarts[j] : j \in 1..Len(disStarts) }
UnknownAt(offs) == DeclsOf(readUInt8(disBuf, offs)) = {}
Finished == disAt \in {"done", "thrown"}

\* The run prints what disassemble, as a function of the file, prints.
DisasmAgrees == Finished => listing = disassemble(disBuf)

(***************************************************************************)
(* C21: for every offset at which the loop read an opcode byte that is no  *)
(* opcode, the listing has a "!byte" line for the byte at its address, and *)
(* decoding went on at the next byte.  The loop of part_008 prints nothing *)
(* for such a byte.                                                        *)
(***************************************************************************)
IsDataLine(d, offs) ==
    /\ d.addr = AddrOf(offs)
    /\ d.mnemonic = "!byte"
    /\ TextValue(d.text) = readUInt8(disBuf, offs)

C21_UnknownOpcodeIsDataLine ==
    Finished =>
        \A o \in DisStarts :
            UnknownAt(o) =>
                /\ \E j \in 1..Len(listing) : IsDataLine(listing[j], o)
                /\ o + 1 < Len(disBuf) => o + 1 \in DisStarts

(***************************************************************************)
(* C22: for every `!byte` expression of the last pass whose value v is an  *)
(* integer: if v is in [-128, 255] the line emits exactly one byte, v      *)
(* modulo 256 in the file, and reports nothing; if v is outside, the line  *)
(* reports an error and emits nothing.  tryIntArg emits every value        *)
(* unchecked: `!byte 256` puts 00 into the file without a diagnostic.      *)
(***************************************************************************)
IsByteLine(line) ==
    line.type = "line" /\ line.stmt.type = "byte" /\ Len(line.stmt.values) = 1

\* the value of the expression of a `!byte` line in the last pass
ByteValue(line) == evalExpr(line.stmt.values[1], 1, labels)
IsInteger(v) == v.k = "num" /\ v.d = 1

C22_ByteRangeChecked ==
    at = "exit" =>
        \A k \in CallsOf(1) :
            (IsByteLine(LineOf(k)) /\ IsInteger(ByteValue(LineOf(k)))) =>
                IF ByteValue(LineOf(k)).n \in -128..255
                THEN /\ hist[k].ok
                     /\ hist[k].out = <<>>
                     /\ hist[k].len = 1
                     /\ FileByte(hist[k].pc - loadAddress(prgFile)) = ByteValue(LineOf(k)).n % 256
                ELSE /\ hist[k].out # <<>>
                     /\ hist[k].len = 0

(***************************************************************************)
(* C23: a `!binary` line with size s and offset o (o = 0 and s = the rest  *)
(* of the file where left out) emits exactly the bytes of the file at      *)
(* offsets o .. o+s-1 in file order when that range lies in the file; when *)
(* it exceeds the file the line reports an error, and the run goes on to   *)
(* its end.  emitBinary has no check: a read past the end throws an        *)
(* uncaught RangeError that ends the process after part of the range was   *)
(* emitted, and an offset past the end with no size emits nothing and      *)
(* succeeds in silence.                                                    *)
(***************************************************************************)
IsBinaryLine(line) == line.type = "line" /\ line.stmt.type = "binary"

\* the offset and the size the line asks for (literals in the model's sources)
AskedOffset(line) == IF line.stmt.offset = NullNode THEN 0 ELSE line.stmt.offset.value
AskedSize(line) ==
    IF line.stmt.size = NullNode
    THEN Len(readFileSync(line.stmt.filename)) - AskedOffset(line)
    ELSE line.stmt.size.value

InFile(line) ==
    /\ AskedOffset(line) >= 0
    /\ AskedSize(line) >= 0
    /\ AskedOffset(line) + AskedSize(line) <= Len(readFileSync(line.stmt.filename))

FileRange(line) ==
    [j \in 1..AskedSize(line) |-> Num(readFileSync(line.stmt.filename)[AskedOffset(line) + j])]

C23_BinaryInclude ==
    /\ at # "crashed"
    /\ \A k \in Calls :
          IsBinaryLine(LineOf(k)) =>
              IF InFile(LineOf(k))
              THEN hist[k].ok /\ hist[k].out = <<>> /\ hist[k].bytes = FileRange(LineOf(k))
              ELSE ~hist[k].ok /\ hist[k].out # <<>>

(***************************************************************************)
(* C24: the value of an expression is the result of 64-bit two's           *)
(* complement integer arithmetic, and a division (or remainder) by zero    *)
(* reports an error and yields no value.  For a `!byte` of one binary      *)
(* operation on two literals: the line emits the integer result (no result *)
(* of the model's sources leaves the 64-bit range, so it is the plain      *)
(* integer result, with the quotient truncated toward zero), and with a    *)
(* zero divisor it reports an error and emits nothing.  evalExpr computes  *)
(* on JavaScript numbers: 7 / 2 is 3.5, 1 / 0 is Infinity, 5 % 0 is NaN,   *)
(* and none of them is reported.                                           *)
(***************************************************************************)
IsLiteralOp(e) == e.type = "binary" /\ e.left.type = "literal" /\ e.right.type = "literal"

\* a op b on integers
IntegerOp(op, a, b) ==
    CASE op = "+" -> a + b
      [] op = "-" -> a - b
      [] op = "*" -> a * b
      [] op = "/" -> Trunc(a, b)
      [] op = "%" -> a - b * Trunc(a, b)

DividesByZero(e) == e.op \in {"/", "%"} /\ e.right.value = 0

ExprOf(k) == LineOf(k).stmt.values[1]

C24_IntegerArithmetic ==
    \A k \in Calls :
        (IsByteLine(LineOf(k)) /\ IsLiteralOp(ExprOf(k))) =>
            IF DividesByZero(ExprOf(k))
            THEN hist[k].out # <<>> /\ hist[k].len = 0
            ELSE hist[k].bytes =
                     <<Num(IntegerOp(ExprOf(k).op, ExprOf(k).left.value, ExprOf(k).right.value))>>

(***************************************************************************)
(* C25: the byte buffer is cleared at the start of each pass except the    *)
(* final one: when pass 0 starts the buffer is empty, and when pass 1, the *)
(* final pass, starts the buffer still begins with what pass 0 put there.  *)
(***************************************************************************)
\* main has called startPass for pass p and assemble has not emitted yet
PassStarted(p) == at = "assemble" /\ pass = p

\* the buffer begins with the bytes of the BASIC header
KeepsHeader ==
    /\ Len(binary) >= Len(emitBasicHeader)
    /\ \A j \in 1..Len(emitBasicHeader) : binary[j] = emitBasicHeader[j]

C25_ClearedExceptFinalPass ==
    /\ PassStarted(0) => binary = <<>>
    /\ PassStarted(1) => KeepsHeader

(***************************************************************************)
(* C25 as amended: the byte buffer is cleared at the start of every pass,  *)
(* the final one included, and during a pass it holds the BASIC header and *)
(* then the bytes the lines of that pass emitted, and nothing of an        *)
(* earlier pass.                                                           *)
(***************************************************************************)
RECURSIVE EmittedUpTo(_, _)
\* the number of bytes the first k calls of assembleLine emitted in pass p
EmittedUpTo(p, k) ==
    IF k = 0 THEN 0
    ELSE EmittedUpTo(p, k - 1) + (IF hist[k].pass = p THEN hist[k].len ELSE 0)

C25_ClearedEveryPass ==
    /\ at = "assemble" => binary = <<>>
    /\ at \in {"loop", "writePrg", "exit"} =>
          /\ KeepsHeader
          /\ Len(binary) = Len(emitBasicHeader) + EmittedUpTo(pass, Len(hist))

C25_Witness ==
    /\ PassStarted(1)
    /\ binary = <<>>
    /\ \E k \in CallsOf(0) : hist[k].len > 0

(***************************************************************************)
(* The binary monitor protocol of part_005 (viceCommands): frames are      *)
(* sequences of bytes, a 32-bit field is read as the pair of its low and   *)
(* its high 16 bits.                                                       *)
(***************************************************************************)
HeaderRespLen == 12
STX == 2
APIVER == 2
MON_RESPONSE_MEM_SET == 2
MON_RESPONSE_CHECKPOINT_INFO == 17
MON_RESPONSE_CHECKPOINT_LIST == 20
MON_RESPONSE_REGISTER_INFO == 49
MON_RESPONSE_STOPPED == 98
MON_RESPONSE_RESUMED == 99
MON_RESPONSE_EXIT == 170

\* Buffer.slice(start) and Buffer.slice(0, end)
slice(buf, start) == SubSeq(buf, start + 1, Len(buf))
sliceTo(buf, end) == SubSeq(buf, 1, IF end < Len(buf) THEN end ELSE Len(buf))

\* Buffer.readUInt16LE and Buffer.readUInt32LE at an offset inside the buffer
readUInt16LE(buf, offs) == buf[offs + 1] + 256 * buf[offs + 2]
readUInt32LE(buf, offs) == <<readUInt16LE(buf, offs), readUInt16LE(buf, offs + 2)>>

\* The bytes Buffer.writeUInt32LE writes for id, and id as readUInt32LE reads it back.
writeUInt32LE(id) ==
    <<id % 256, (id \div 256) % 256, (id \div 65536) % 256, (id \div 16777216) % 256>>
UInt32(id) == <<id % 65536, (id \div 65536) % 65536>>

\* The id the binary monitor gives a frame no request asked for: 0xffffffff.
EventId == <<255, 255, 255, 255>>

\* A frame as the binary monitor sends it: the header of 12 bytes, then the body.
Frame(type, code, id, body) ==
    <<STX, APIVER, Len(body) % 256, Len(body) \div 256, 0, 0, type, code>> \o id \o body

\* Response.parseHeader: the header of the frame a buffer begins with;
\* HeaderThrows where it throws.
HeaderThrows(buf) ==
    \/ Len(buf) < HeaderRespLen
    \/ readUInt8(buf, 0) # STX
    \/ readUInt8(buf, 1) # APIVER
    \/ readUInt32LE(buf, 2)[2] > 0
    \/ readUInt32LE(buf, 2)[1] > Len(buf) - HeaderRespLen

parseHeader(buf) ==
    [type |-> readUInt8(buf, 6), code |-> readUInt8(buf, 7), id |-> readUInt32LE(buf, 8),
     bodyLength |-> readUInt32LE(buf, 2)[1]]

\* The constructor of Response on a buffer, for a class whose Type() is type:
\* it throws on a header that does not parse and, when the code is OK, on
\* another type and on a body of another length than the header says.
ResponseThrows(buf, type) ==
    \/ HeaderThrows(buf)
    \/ /\ parseHeader(buf).code = 0
       /\ \/ parseHeader(buf).type # type
          \/ parseHeader(buf).bodyLength # Len(buf) - HeaderRespLen

\* new StoppedResponse(buffer), new ResumedResponse(buffer): Response, then
\* the pc is read from the first two bytes of the body.
PcResponseThrows(buf, type) ==
    ResponseThrows(buf, type) \/ Len(buf) - HeaderRespLen < 2

RECURSIVE RegisterItemsThrow(_, _)
\* the loop of RegistersGetResponse over n items of buf
RegisterItemsThrow(buf, n) ==
    IF n = 0 THEN FALSE
    ELSE Len(buf) < 4 \/ RegisterItemsThrow(slice(buf, readUInt8(buf, 0) + 1), n - 1)

\* new RegistersGetResponse(buffer)
RegistersGetResponseThrows(buf) ==
    \/ ResponseThrows(buf, MON_RESPONSE_REGISTER_INFO)
    \/ Len(buf) - HeaderRespLen < 2
    \/ RegisterItemsThrow(slice(buf, HeaderRespLen + 2), readUInt16LE(buf, HeaderRespLen))

\* new CheckpointResponse(buffer): Response, then 23 bytes of the body are read.
CheckpointResponseThrows(buf) ==
    ResponseThrows(buf, MON_RESPONSE_CHECKPOINT_INFO) \/ Len(buf) - HeaderRespLen < 23

\* new CheckpointListResponse(buffer): Response, then the count is read.
CheckpointListResponseThrows(buf) ==
    ResponseThrows(buf, MON_RESPONSE_CHECKPOINT_LIST) \/ Len(buf) - HeaderRespLen < 2

(***************************************************************************)
(* MonitorConnection of c64jasmRuntime.ts.  The operators below work on a  *)
(* record s of the state: the connection's fields (s.monitor), the         *)
(* requests and operations it was called with, and the history variables.  *)
(* A request is the cmd.Request object (class, id, response) together with *)
(* the promise sendRequest returned for it (outcome) and the position of   *)
(* the executor of sendRequestAsync that sends it (at):                    *)
(*   "queued"   in this.queue, not started;                                *)
(*   "write"    started, awaiting binarySocket.writeBinary;                *)
(*   "wait"     in the loop that polls tryGetResponse, awaiting delay(50); *)
(*   "hung"     the executor has ended without calling resolve or reject;  *)
(*   "settled"  resolve or reject has been called.                         *)
(***************************************************************************)
MaxCalls == 2

\* F of the value of x, x being evaluated once.
Once(F(_), x) == CHOOSE v \in {F(t) : t \in {x}} : TRUE

Now ==
    [monitor |-> monitor, requests |-> requests, operations |-> operations,
     wire |-> wire, sent |-> sent, dispatched |-> dispatched, uncaught |-> uncaught]

Becomes(s) ==
    /\ monitor' = s.monitor
    /\ requests' = s.requests
    /\ operations' = s.operations
    /\ wire' = s.wire
    /\ sent' = s.sent
    /\ dispatched' = s.dispatched
    /\ uncaught' = s.uncaught

\* A request object as its constructor leaves it, passed to sendRequest
\* (custom = FALSE) or sendRequestCustom (custom = TRUE) by operation op (0: by
\* the user of the connection).  No id is 0, no response is <<>>.
NewRequest(class, custom, waitResponse, op) ==
    [class |-> class, custom |-> custom, waitResponse |-> waitResponse, op |-> op,
     id |-> 0, response |-> <<>>, at |-> "queued", outcome |-> "pending"]

\* Type() of the response class createResponse of a request class constructs
ResponseTypeOf(class) ==
    CASE class = "MemorySetRequest" -> MON_RESPONSE_MEM_SET
      [] class = "ContinueRequest" -> MON_RESPONSE_EXIT
      [] class = "CheckpointListRequest" -> MON_RESPONSE_CHECKPOINT_LIST

\* The responseEater of sendRequestAsync for req, on the frame the buffer
\* begins with: whether it returns the size of the frame (otherwise it returns
\* 0 or throws), having set the response of req.
responseEaterAnyId(req, frame) ==
    ~ResponseThrows(frame, ResponseTypeOf(req.class))

responseEater(req, frame) ==
    /\ parseHeader(frame).id = UInt32(req.id)
    /\ ~ResponseThrows(frame, ResponseTypeOf(req.class))

\* The dataEater of delBreakpoints for req: whether it returns the size of the
\* frame, and whether req.addData has then set the response.
dataEater(req, frame) ==
    /\ parseHeader(frame).id = UInt32(req.id)
    /\ parseHeader(frame).type \in {MON_RESPONSE_CHECKPOINT_INFO, MON_RESPONSE_CHECKPOINT_LIST}

addData(req, frame) ==
    IF CheckpointListResponseThrows(frame) THEN req.response ELSE <<parseHeader(frame)>>

\* handleIncomingData, lines 260-274: the installed eater takes the frame.
Eats(s, frame) ==
    /\ s.monitor.responseEater # 0
    /\ IF s.requests[s.monitor.responseEater].custom
       THEN dataEater(s.requests[s.monitor.responseEater], frame)
       ELSE responseEater(s.requests[s.monitor.responseEater], frame)

Dispatch(to, frame) == [to |-> to, frame |-> frame]

Eaten(s, frame) ==
    [s EXCEPT !.requests[s.monitor.responseEater].response =
                  IF s.requests[s.monitor.responseEater].custom
                  THEN addData(s.requests[s.monitor.responseEater], frame)
                  ELSE <<parseHeader(frame)>>,
              !.monitor.buffer = slice(@, Len(frame)),
              !.dispatched = Append(@, Dispatch("request", frame))]

\* handleIncomingData, lines 276-368: a frame no eater took, for a connection
\* whose loadProgram was not asked to stop on entry (expectingStopOnEntry is
\* false): it is tried as STOPPED, RESUMED, registers, checkpoint, and then
\* discarded.
Taken(s, frame, to, stopped) ==
    [s EXCEPT !.monitor.buffer = slice(@, Len(frame)),
              !.monitor.stopped = stopped,
              !.dispatched = Append(@, Dispatch(to, frame))]

Unsolicited(s, frame) ==
    IF ~PcResponseThrows(frame, MON_RESPONSE_STOPPED) THEN Taken(s, frame, "stopped", TRUE)
    ELSE IF ~PcResponseThrows(frame, MON_RESPONSE_RESUMED) THEN Taken(s, frame, "resumed", FALSE)
    ELSE IF ~RegistersGetResponseThrows(frame) THEN Taken(s, frame, "registers", s.monitor.stopped)
    ELSE IF ~CheckpointResponseThrows(frame)
         THEN Taken(s, frame, "checkpoint", readUInt8(frame, HeaderRespLen + 4) = 1)
    ELSE Taken(s, frame, "discarded", s.monitor.stopped)

RECURSIVE scan(_, _)
\* while (this.buffer.readUInt16LE(i) !== responseStartBytes) i += 1;
\* -1 when readUInt16LE throws the RangeError of an offset past the end.
scan(buf, at_) ==
    IF at_ > Len(buf) - 2 THEN -1
    ELSE IF readUInt16LE(buf, at_) = STX * 256 + APIVER THEN at_
    ELSE scan(buf, at_ + 1)

frameOf(buf) == sliceTo(buf, HeaderRespLen + parseHeader(buf).bodyLength)

RECURSIVE handleLoop(_, _)
\* the body of the loop from line 251 on, the buffer beginning at offset at_ (the local i) of
\* what it was; it keeps its value for the next iteration
handleFrame(s, at_) ==
    IF HeaderThrows(s.monitor.buffer) THEN s
    ELSE handleLoop(IF Eats(s, frameOf(s.monitor.buffer))
                    THEN Eaten(s, frameOf(s.monitor.buffer))
                    ELSE Unsolicited(s, frameOf(s.monitor.buffer)), at_)

\* the body of the loop, the scan of line 242 having ended at offset at_
handleFound(s, at_) ==
    IF at_ = -1 THEN [s EXCEPT !.uncaught = @ + 1]
    ELSE IF at_ >= Len(s.monitor.buffer) THEN [s EXCEPT !.monitor.buffer = <<>>]
    ELSE handleFrame([s EXCEPT !.monitor.buffer = slice(@, at_)], at_)

\* the loop of handleIncomingData, at_ being its local variable i
handleLoop(s, at_) ==
    Once(LAMBDA t : IF Len(t.monitor.buffer) < HeaderRespLen THEN t
                    ELSE handleFound(t, scan(t.monitor.buffer, at_)),
         s)

handleIncomingData(s, b) == handleLoop([s EXCEPT !.monitor.buffer = @ \o b], 0)

\* sendRequestAsync and sendRequestCustomAsync of request r, up to the await of
\* writeBinary: setId(getRequestId()), the eater is installed, the write begins.
sendRequestAsync(s, r) ==
    [s EXCEPT !.monitor.requestId = @ + 1,
              !.requests[r].id = s.monitor.requestId + 1,
              !.monitor.responseEater = r,
              !.requests[r].at = "write"]

\* dequeue that starts the next request although one is in flight
dequeueAlways(s) ==
    IF s.monitor.queue = <<>> THEN s
    ELSE sendRequestAsync([s EXCEPT !.monitor.queue = Tail(@),
                                    !.monitor.workingOnPromise = TRUE],
                          Head(s.monitor.queue))

dequeue(s) ==
    IF s.monitor.workingOnPromise THEN s
    ELSE IF s.monitor.queue = <<>> THEN s
    ELSE sendRequestAsync([s EXCEPT !.monitor.queue = Tail(@),
                                    !.monitor.workingOnPromise = TRUE],
                          Head(s.monitor.queue))

enqueue(s, r) == dequeue([s EXCEPT !.monitor.queue = Append(@, r)])

\* sendRequest(req, waitResponse) and sendRequestCustom(req, dataEater) with a
\* new request object
sendRequest(s, class, custom, waitResponse, op) ==
    enqueue([s EXCEPT !.requests = Append(@, NewRequest(class, custom, waitResponse, op))],
            Len(s.requests) + 1)

\* An operation as its call leaves it: saveRunningState has run.
NewOperation(s, name) ==
    [name |-> name, at |-> "request", ranBefore |-> ~s.monitor.stopped, stoppedAfter |-> FALSE]

saveRunningState(s) == [s EXCEPT !.monitor.wasRunningBeforeOperation = ~s.monitor.stopped]

\* the promise of operation o settles
Completes(s, o) ==
    [s EXCEPT !.operations[o].at = "done", !.operations[o].stoppedAfter = s.monitor.stopped]

\* go(), called by restoreRunningState of operation o
go(s, o) ==
    sendRequest([s EXCEPT !.monitor.stopped = FALSE, !.operations[o].at = "resuming"],
                "ContinueRequest", FALSE, TRUE, o)

\* the finally block of operation o
restoreRunningState(s, o) ==
    IF s.monitor.wasRunningBeforeOperation /\ s.monitor.stopped THEN go(s, o) ELSE Completes(s, o)

\* What the caller of sendRequest for request r does when its promise has settled.
Continuation(s, r) ==
    IF s.requests[r].op = 0 THEN s
    ELSE IF s.operations[s.requests[r].op].at = "resuming"
         THEN Completes(s, s.requests[r].op)
    ELSE IF s.operations[s.requests[r].op].name = "delBreakpoints"
            /\ s.requests[r].outcome = "resolved"
         THEN [s EXCEPT !.operations[s.requests[r].op].at = "delay"]
    ELSE restoreRunningState(s, s.requests[r].op)

\* resolve or reject is called for request r: the finally of sendRequestAsync,
\* the then or catch of dequeue, and the continuation of the caller.
Settle(s, r, outcome) ==
    Once(LAMBDA t : Continuation(t, r),
         dequeue([s EXCEPT !.monitor.responseEater = 0,
                           !.monitor.workingOnPromise = FALSE,
                           !.requests[r].at = "settled",
                           !.requests[r].outcome = outcome]))

\* The executor of request r at the test of its polling loop: elapsed says
\* that the clock has passed TIMEOUT_MS since the loop began.
Polled(s, r, elapsed) ==
    IF s.requests[r].response # <<>> THEN Settle(s, r, "resolved")
    ELSE IF elapsed THEN Settle(s, r, "rejected")
    ELSE [s EXCEPT !.requests[r].at = "wait"]

\* The executor of request r after writeBinary has resolved.
Written(s, r) ==
    IF ~s.requests[r].custom /\ ~s.requests[r].waitResponse
    THEN [s EXCEPT !.requests[r].at = "hung"]
    ELSE Polled(s, r, FALSE)

\* What the binary monitor may send when it has received request req: nothing,
\* the response, the response under the id of a later request; a STOPPED
\* event before the response; a RESUMED event after the response to a
\* ContinueRequest.
Pc == <<13, 8>>
ResponseBody(class) == IF class = "CheckpointListRequest" THEN <<0, 0>> ELSE <<>>
ResponseTo(req, code, id) ==
    Frame(ResponseTypeOf(req.class), code, writeUInt32LE(id), ResponseBody(req.class))
Stopped == Frame(MON_RESPONSE_STOPPED, 0, EventId, Pc)
Resumed == Frame(MON_RESPONSE_RESUMED, 0, EventId, Pc)

Replies(req) ==
    IF req.class = "ContinueRequest"
    THEN {<<>>, <<ResponseTo(req, 0, req.id), Resumed>>}
    ELSE {<<>>,
          <<ResponseTo(req, 0, req.id)>>,
          <<Stopped, ResponseTo(req, 0, req.id)>>,
          <<ResponseTo(req, 0, req.id + 1)>>}

RECURSIVE Bytes(_)
Bytes(frames) == IF frames = <<>> THEN <<>> ELSE Head(frames) \o Bytes(Tail(frames))

Sends(s, frames) == [s EXCEPT !.wire = @ \o Bytes(frames), !.sent = @ \o frames]

(***************************************************************************)
(* The steps of a connection.                                              *)
(***************************************************************************)
InitMonitor ==
    /\ AsmIdle
    /\ DriverIdle
    /\ DisIdle
    /\ MonIdle
    /\ DbgIdle

\* The calls the user has made: of an operation, of sendRequest.
UserCalls == Len(operations) + Cardinality({r \in DOMAIN requests : requests[r].op = 0})

\* The user calls setMemory.
SetMemory ==
    /\ UserCalls < MaxCalls
    /\ Becomes(sendRequest(
           [saveRunningState(Now) EXCEPT !.operations = Append(@, NewOperation(Now, "setMemory"))],
           "MemorySetRequest", FALSE, TRUE, Len(operations) + 1))
    /\ UNCHANGED notMonVars

\* The user calls delBreakpoints, no breakpoint being set.
DelBreakpoints ==
    /\ UserCalls < MaxCalls
    /\ Becomes(sendRequest(
           [saveRunningState(Now) EXCEPT !.operations = Append(@, NewOperation(Now, "delBreakpoints"))],
           "CheckpointListRequest", TRUE, TRUE, Len(operations) + 1))
    /\ UNCHANGED notMonVars

\* The user calls sendRequest.
SendRequest ==
    /\ UserCalls < MaxCalls
    /\ \E waitResponse \in BOOLEAN :
           Becomes(sendRequest(Now, "MemorySetRequest", FALSE, waitResponse, 0))
    /\ UNCHANGED notMonVars

\* The callback of socket.write for the request being written: with an error
\* writeBinary rejects and the executor ends; without, the monitor has the
\* request, and the executor goes on.
WriteFails ==
    /\ \E r \in DOMAIN requests :
           /\ requests[r].at = "write"
           /\ Becomes([Now EXCEPT !.requests[r].at = "hung"])
    /\ UNCHANGED notMonVars

WriteDone ==
    /\ \E r \in DOMAIN requests :
           /\ requests[r].at = "write"
           /\ \E frames \in Replies(requests[r]) :
                  Becomes(Written(Sends(Now, frames), r))
    /\ UNCHANGED notMonVars

\* delay(50) of the polling loop of a request elapses and the response is there.
Poll ==
    /\ \E r \in DOMAIN requests :
           /\ requests[r].at = "wait"
           /\ requests[r].response # <<>>
           /\ Becomes(Polled(Now, r, FALSE))
    /\ UNCHANGED notMonVars

\* delay(50) elapses, no response is there and the clock has passed TIMEOUT_MS.
Timeout ==
    /\ \E r \in DOMAIN requests :
           /\ requests[r].at = "wait"
           /\ requests[r].response = <<>>
           /\ Becomes(Polled(Now, r, TRUE))
    /\ UNCHANGED notMonVars

\* delay(500) of delBreakpoints elapses; the loop finds no breakpoint.
DelayDone ==
    /\ \E o \in DOMAIN operations :
           /\ operations[o].at = "delay"
           /\ Becomes(restoreRunningState(Now, o))
    /\ UNCHANGED notMonVars

\* A 'data' event of the binary socket with the next n bytes.
DataOf(n) ==
    /\ Becomes(handleIncomingData([Now EXCEPT !.wire = slice(@, n)], sliceTo(wire, n)))
    /\ UNCHANGED notMonVars

\* A 'data' event with the bytes of one frame, the next the monitor has sent.
DataFrame ==
    /\ wire # <<>>
    /\ DataOf(Len(frameOf(wire)))

NextMonitor ==
    \/ SetMemory
    \/ DelBreakpoints
    \/ SendRequest
    \/ WriteFails
    \/ WriteDone
    \/ Poll
    \/ Timeout
    \/ DelayDone
    \/ DataFrame

SpecMonitor == InitMonitor /\ [][NextMonitor]_vars

(***************************************************************************)
(* Vocabulary of the properties of the connection.                         *)
(***************************************************************************)
Requests == DOMAIN requests
Started(r) == requests[r].at # "queued"
Settled(r) == requests[r].outcome # "pending"
\* started, and its promise neither resolved nor rejected
InFlight(r) == Started(r) /\ ~Settled(r)
\* q was started before r
StartedBefore(q, r) == Started(q) /\ Started(r) /\ requests[q].id < requests[r].id

(***************************************************************************)
(* C26: at most one request is in flight at any time, and a request is     *)
(* started only when every request started before it has had its promise   *)
(* resolved or rejected.                                                   *)
(***************************************************************************)
C26_OneInFlight ==
    /\ Cardinality({r \in Requests : InFlight(r)}) <= 1
    /\ \A q, r \in Requests : StartedBefore(q, r) => Settled(q)
    /\ \A r \in Requests : InFlight(r) => monitor.workingOnPromise

C26_Witness ==
    \E q, r \in Requests :
        /\ StartedBefore(q, r)
        /\ InFlight(r)
        /\ monitor.queue # <<>>

(***************************************************************************)
(* The connection under the scheduling of the event loop: the callback of  *)
(* a socket write is called, with or without an error; a timer that was    *)
(* set fires, so a polling loop sees the response or, with none, the       *)
(* timeout; the bytes the monitor has sent arrive.                         *)
(***************************************************************************)
SpecMonitorFair ==
    /\ SpecMonitor
    /\ WF_vars(WriteFails \/ WriteDone)
    /\ WF_vars(Poll)
    /\ WF_vars(Timeout)
    /\ WF_vars(DelayDone)
    /\ WF_vars(DataFrame)

\* the requests a run can be given: each call makes one, and one more for go
RequestIds == 1..(2 * MaxCalls)

(***************************************************************************)
(* C27: every request passed to sendRequest or sendRequestCustom           *)
(* eventually has its promise resolved or rejected, whatever the outcome   *)
(* of the socket write and whether or not a response arrives (so that the  *)
(* requests queued behind it are started and settled in their turn).       *)
(***************************************************************************)
C27_EveryRequestSettles ==
    \A r \in RequestIds : (r \in Requests) ~> (r \in Requests /\ Settled(r))

(***************************************************************************)
(* C28: a request's promise is resolved only with a response frame that    *)
(* handleIncomingData received and whose header id equals the id assigned  *)
(* to the request, and no two requests that were sent carry the same id,   *)
(* as a number and as the four bytes setId writes into the header.         *)
(***************************************************************************)
PromiseResolved(r) == requests[r].outcome = "resolved"
\* the eater took a frame with header h
Received(h) ==
    \E k \in DOMAIN dispatched :
        dispatched[k].to = "request" /\ parseHeader(dispatched[k].frame) = h

C28_ResolvedWithOwnId ==
    /\ \A r \in Requests :
           PromiseResolved(r) =>
               /\ requests[r].response # <<>>
               /\ requests[r].response[1].id = UInt32(requests[r].id)
               /\ Received(requests[r].response[1])
    /\ \A q, r \in Requests :
           (q # r /\ Started(q) /\ Started(r)) =>
               /\ requests[q].id # requests[r].id
               /\ writeUInt32LE(requests[q].id) # writeUInt32LE(requests[r].id)

C28_Witness ==
    /\ \E r \in Requests : PromiseResolved(r)
    /\ \E k \in DOMAIN dispatched :
           /\ dispatched[k].to = "discarded"
           /\ parseHeader(dispatched[k].frame).type = MON_RESPONSE_MEM_SET

(***************************************************************************)
(* handleIncomingData on a byte stream: the binary monitor has sent up to  *)
(* MaxFrames frames, each after no or one byte that belongs to no frame,   *)
(* and 'data' events deliver the stream in pieces of any length.           *)
(***************************************************************************)
MaxFrames == 2

\* bytes that belong to no frame, before a frame
Garbage == {<<>>, <<0>>}

\* the frames of the streams: the two events, and a response nobody waits for
StreamFrames == {Stopped, Resumed, Frame(MON_RESPONSE_MEM_SET, 0, writeUInt32LE(1), <<>>)}

\* A stream: for each frame the bytes before it (pre) and the frame.
Streams ==
    UNION { [1..n -> [pre : Garbage, frame : StreamFrames]] : n \in 1..MaxFrames }

RECURSIVE StreamBytes(_)
StreamBytes(stream) ==
    IF stream = <<>> THEN <<>>
    ELSE Head(stream).pre \o Head(stream).frame \o StreamBytes(Tail(stream))

InitFrames ==
    /\ AsmIdle
    /\ DriverIdle
    /\ DisIdle
    /\ monitor = NewMonitor
    /\ requests = <<>>
    /\ operations = <<>>
    /\ \E stream \in Streams :
           /\ wire = StreamBytes(stream)
           /\ sent = [k \in DOMAIN stream |-> stream[k].frame]
    /\ dispatched = <<>>
    /\ uncaught = 0
    /\ DbgIdle

\* A 'data' event with the next n bytes, for any n.
Data == \E n \in 1..Len(wire) : DataOf(n)

NextFrames == Data

SpecFrames == InitFrames /\ [][NextFrames]_vars

(***************************************************************************)
(* C29: handleIncomingData dispatches each complete frame exactly once and *)
(* in arrival order, however the stream is split across 'data' events and  *)
(* whatever bytes precede a frame header: no handler throws, the frames    *)
(* dispatched so far are the first frames sent, in order, and once every   *)
(* byte has arrived every frame sent has been dispatched.                  *)
(***************************************************************************)
DispatchedFrames == [k \in DOMAIN dispatched |-> dispatched[k].frame]
IsPrefix(a, b) == Len(a) <= Len(b) /\ a = SubSeq(b, 1, Len(a))

C29_EachFrameOnceInOrder ==
    /\ uncaught = 0
    /\ IsPrefix(DispatchedFrames, sent)
    /\ wire = <<>> => DispatchedFrames = sent

(***************************************************************************)
(* C30: each binary-protocol operation restores the run state it found:    *)
(* an operation that was called while execution was running (stopped was   *)
(* false) leaves it running when it completes, for every interleaving of   *)
(* operations called while others are pending.                             *)
(***************************************************************************)
Operations == DOMAIN operations
Done(o) == operations[o].at = "done"

C30_RunStateRestored ==
    \A o \in Operations :
        (Done(o) /\ operations[o].ranBefore) => ~operations[o].stoppedAfter

(***************************************************************************)
(* Breakpoints: C64jasmDebugSession.setBreakPointsRequest and the runtime  *)
(* and monitor functions it calls, with a monitor that is connected and a  *)
(* VICE that answers every request.                                        *)
(***************************************************************************)
MaxBpLine == 2
MaxBreakpointId == 4

\* debugInfo.pcToLocs of the debugged program: line 1 of each file holds an
\* instruction, the other lines hold none.
pcToLocs ==
    {[pc |-> 2061, source |-> "a.asm", lineNo |-> 1],
     [pc |-> 2063, source |-> "b.asm", lineNo |-> 1]}

\* The first pc whose location list holds the line, or null (0).
findSourceLoc(path, line) ==
    IF \E loc \in pcToLocs : loc.source = path /\ loc.lineNo = line
    THEN CHOOSE pc \in {loc.pc : loc \in pcToLocs} :
             /\ \E loc \in pcToLocs : loc.pc = pc /\ loc.source = path /\ loc.lineNo = line
             /\ \A loc \in pcToLocs :
                    (loc.source = path /\ loc.lineNo = line) => pc <= loc.pc
    ELSE 0

\* The breakpoint state of runtime, monitor and VICE as one value.
BpNow ==
    [bps |-> runtimeBreakpoints, id |-> breakpointId, mon |-> monBreakpoints,
     vice |-> checkpoints, seq |-> checkpointSeq]

\* MonitorConnection.delBreakpoints: every checkpoint the monitor has set
\* and VICE lists is forgotten and deleted in VICE, whatever file it is of.
delBreakpoints(s) ==
    [s EXCEPT !.mon = [pc \in {q \in DOMAIN s.mon : s.mon[q] \notin s.vice} |-> s.mon[pc]],
              !.vice = @ \ {s.mon[pc] : pc \in DOMAIN s.mon}]

\* C64jasmRuntime.clearBreakpoints.
clearBreakpoints(s, path) == delBreakpoints([s EXCEPT !.bps[path] = <<>>])

\* C64jasmRuntime.setBreakpoint; no checkpointId is 0.
setBreakpoint(s, path, line) ==
    [s EXCEPT !.bps[path] = Append(@, [verified |-> FALSE, line |-> line, id |-> s.id,
                                       checkpointId |-> 0]),
              !.id = @ + 1]

\* The calls of setBreakpoint for the breakpoints of the request, in order.
RECURSIVE setBreakpoints(_, _, _)
setBreakpoints(s, path, lines) ==
    IF lines = <<>> THEN s
    ELSE setBreakpoints(setBreakpoint(s, path, Head(lines)), path, Tail(lines))

\* MonitorConnection.setBreakpoint: VICE sets a checkpoint and the monitor
\* records it under its pc.
monitorSetBreakpoint(s, pc) ==
    [s EXCEPT !.mon = [q \in DOMAIN @ \cup {pc} |-> IF q = pc THEN s.seq ELSE @[q]],
              !.vice = @ \cup {s.seq},
              !.seq = @ + 1]

\* The body of the loop of verifyBreakpoints for the k-th breakpoint.
verifyBreakpoint(s, path, k) ==
    IF ~s.bps[path][k].verified /\ findSourceLoc(path, s.bps[path][k].line) # 0
    THEN [monitorSetBreakpoint(s, findSourceLoc(path, s.bps[path][k].line))
             EXCEPT !.bps[path][k].verified = TRUE,
                    !.bps[path][k].checkpointId = s.seq]
    ELSE s

RECURSIVE verifyFrom(_, _, _)
verifyFrom(s, path, k) ==
    IF k > Len(s.bps[path]) THEN s
    ELSE verifyFrom(verifyBreakpoint(s, path, k), path, k + 1)

\* C64jasmRuntime.verifyBreakpoints.
verifyBreakpoints(s, path) == verifyFrom(s, path, 1)

\* C64jasmRuntime.getAllBreakpoints.
getAllBreakpoints(s) ==
    UNION {{s.bps[path][k] : k \in DOMAIN s.bps[path]} : path \in Paths}

\* The handler of a setBreakpoints request.
setBreakPointsRequest(s, path, lines) ==
    verifyBreakpoints(setBreakpoints(clearBreakpoints(s, path), path, lines), path)

\* The breakpoint lists a client sends for one file.
SourceBps ==
    {<<>>} \cup {<<l>> : l \in 1..MaxBpLine}
           \cup {<<l, m>> : l, m \in 1..MaxBpLine}

BpBecomes(s) ==
    /\ runtimeBreakpoints' = s.bps
    /\ breakpointId' = s.id
    /\ monBreakpoints' = s.mon
    /\ checkpoints' = s.vice
    /\ checkpointSeq' = s.seq
    /\ reported' = getAllBreakpoints(s)

InitBreakpoints ==
    /\ AsmIdle
    /\ DriverIdle
    /\ DisIdle
    /\ MonIdle
    /\ DbgIdle

\* The client sets the breakpoints of one file.
SetBreakPointsRequest ==
    \E path \in Paths, lines \in SourceBps :
        /\ breakpointId + Len(lines) - 1 <= MaxBreakpointId
        /\ BpBecomes(setBreakPointsRequest(BpNow, path, lines))
        /\ UNCHANGED notBpVars

NextBreakpoints == SetBreakPointsRequest

SpecBreakpoints == InitBreakpoints /\ [][NextBreakpoints]_vars

\* C31: every breakpoint the runtime reports as verified has its checkpoint
\* set in VICE; setting the breakpoints of one file leaves the checkpoints
\* of the verified breakpoints of the other files in place.
C31_VerifiedHasCheckpoint ==
    \A bp \in reported : bp.verified => bp.checkpointId \in checkpoints

(***************************************************************************)
(* Debug sessions: the constructor, shutdown and the launch, terminate and *)
(* disconnect requests of C64jasmDebugSession, on the runtime singleton.   *)
(***************************************************************************)
MaxSessions == 3

SessNow ==
    [sessions |-> sessions, activeSession |-> activeSession, listeners |-> listeners,
     runtimeStarted |-> runtimeStarted]

SessBecomes(s) ==
    /\ sessions' = s.sessions
    /\ activeSession' = s.activeSession
    /\ listeners' = s.listeners
    /\ runtimeStarted' = s.runtimeStarted

\* C64jasmDebugSession.cleanupSession of session this: removeAllListeners
\* of the runtime singleton removes the listeners of every session.
cleanupSession(s, this) ==
    [s EXCEPT !.listeners = {},
              !.activeSession = IF @ = this THEN 0 ELSE @,
              !.sessions[this].cleaned = TRUE]

\* C64jasmDebugSession.shutdown.
shutdown(s, this) == [cleanupSession(s, this) EXCEPT !.sessions[this].shutdown = TRUE]

\* A constructor that leaves the active session as it is.
constructorKeepsActive(s) ==
    [s EXCEPT !.sessions = Append(@, [cleaned |-> FALSE, shutdown |-> FALSE,
                                      launched |-> FALSE, events |-> {}]),
              !.activeSession = Len(s.sessions) + 1,
              !.listeners = @ \cup {Len(s.sessions) + 1}]

\* The constructor of C64jasmDebugSession: the new session is the next of
\* sessions.
constructor(s) ==
    constructorKeepsActive(IF s.activeSession # 0 THEN shutdown(s, s.activeSession) ELSE s)

\* C64jasmRuntime.start and C64jasmRuntime.terminate, as far as the monitor
\* and VICE of the runtime go.
start(s) == [s EXCEPT !.runtimeStarted = TRUE]
terminate(s) == [s EXCEPT !.runtimeStarted = FALSE]

\* sendEvent of session this.
sendEvent(s, this, event) == [s EXCEPT !.sessions[this].events = @ \cup {event}]

\* C64jasmDebugSession.launchRequest.
launchRequest(s, this) == [start(s) EXCEPT !.sessions[this].launched = TRUE]

\* C64jasmDebugSession.terminateRequest.
terminateRequest(s, this) ==
    sendEvent(cleanupSession(terminate(s), this), this, "TerminatedEvent")

\* C64jasmDebugSession.disconnectRequest.
disconnectRequest(s, this) ==
    sendEvent(cleanupSession(terminate(s), this), this, "ExitedEvent")

InitSessions ==
    /\ AsmIdle
    /\ DriverIdle
    /\ DisIdle
    /\ MonIdle
    /\ DbgIdle

\* VS Code starts a debug session.
NewSession ==
    /\ Len(sessions) < MaxSessions
    /\ SessBecomes(constructor(SessNow))
    /\ UNCHANGED notSessVars

\* The client of session this sends a launch, a terminate, a disconnect
\* request; the connection of session this to its client ends.
LaunchOf(this) == SessBecomes(launchRequest(SessNow, this)) /\ UNCHANGED notSessVars
TerminateOf(this) == SessBecomes(terminateRequest(SessNow, this)) /\ UNCHANGED notSessVars
DisconnectOf(this) == SessBecomes(disconnectRequest(SessNow, this)) /\ UNCHANGED notSessVars
ShutdownOf(this) == SessBecomes(shutdown(SessNow, this)) /\ UNCHANGED notSessVars

LaunchRequest == \E this \in DOMAIN sessions : LaunchOf(this)
TerminateRequest == \E this \in DOMAIN sessions : TerminateOf(this)
DisconnectRequest == \E this \in DOMAIN sessions : DisconnectOf(this)
Shutdown == \E this \in DOMAIN sessions : ShutdownOf(this)

NextSessions ==
    NewSession \/ LaunchRequest \/ TerminateRequest \/ DisconnectRequest \/ Shutdown

SpecSessions == InitSessions /\ [][NextSessions]_vars

\* C32: at most one session is the active one: every session constructed
\* is the active session or has been cleaned up, and a session that a new
\* session replaced as the active one was shut down in that step.
C32_OneActiveSession ==
    /\ \A this \in DOMAIN sessions : this # activeSession => sessions[this].cleaned
    /\ Cardinality({this \in DOMAIN sessions : ~sessions[this].cleaned}) <= 1

\* Two sessions were constructed one after the other with no request in
\* between: the first was shut down and the second is the active one.
C32_Witness ==
    /\ Len(sessions) = 2
    /\ activeSession = 2
    /\ sessions[1].shutdown
    /\ ~sessions[2].cleaned
    /\ listeners = {2}

\* C33: a terminate request, a disconnect request or a shutdown of a
\* session that is not the active session leaves the listeners of the
\* active session on the runtime and leaves the runtime started.
C33_NonActiveLeavesActiveAlone ==
    [][\A this \in DOMAIN sessions :
           (/\ activeSession # 0
            /\ this # activeSession
            /\ TerminateOf(this) \/ DisconnectOf(this) \/ ShutdownOf(this))
           => /\ (activeSession \in listeners => activeSession \in listeners')
              /\ (runtimeStarted => runtimeStarted')]_vars

(***************************************************************************)
(* Responses: wrapOp of utils.ts and the handlers of the continue, next    *)
(* and stepIn requests of C64jasmDebugSession.                             *)
(***************************************************************************)
MaxDapRequests == 3

\* How the operation passed to wrapOp ends.
Outcomes == {"returns", "throws"}

\* A response object as the framework passes it to a handler.
NewResponse(seq) == [request_seq |-> seq, success |-> TRUE]

\* sendResponse and sendErrorResponse of the session; c is the responses
\* sent and the response object of the handler.
sendResponse(c) ==
    [c EXCEPT !.sent = Append(@, [request_seq |-> c.response.request_seq,
                                  success |-> c.response.success])]
sendErrorResponse(c) ==
    [c EXCEPT !.sent = Append(@, [request_seq |-> c.response.request_seq,
                                  success |-> FALSE])]

\* The finally block of wrapOp.
wrapOpFinally(c) == IF c.response.success THEN sendResponse(c) ELSE sendErrorResponse(c)

\* wrapOp of utils.ts for an operation that ends with outcome.
wrapOp(c, outcome) ==
    wrapOpFinally(IF outcome = "throws" THEN [c EXCEPT !.response.success = FALSE] ELSE c)

\* The handlers. The operation of continueRequest does not await
\* runtime.continue() and so returns whatever becomes of it.
continueRequest(c, outcome) == wrapOp(sendResponse(c), "returns")
nextRequest(c, outcome) == sendResponse(wrapOp(c, outcome))
stepInRequest(c, outcome) == wrapOp(c, outcome)

\* The responses sent and the response object of the next request.
Handling == [sent |-> dapSent, response |-> NewResponse(Len(dapRequests) + 1)]

Handles(command, outcome, c) ==
    /\ dapRequests' = Append(dapRequests, [command |-> command, outcome |-> outcome])
    /\ dapSent' = c.sent
    /\ UNCHANGED notRespVars

InitResponses ==
    /\ AsmIdle
    /\ DriverIdle
    /\ DisIdle
    /\ MonIdle
    /\ DbgIdle

\* The client sends a continue, a next, a stepIn request.
ContinueRequest ==
    /\ Len(dapRequests) < MaxDapRequests
    /\ \E outcome \in Outcomes :
           Handles("continue", outcome, continueRequest(Handling, outcome))

NextRequest ==
    /\ Len(dapRequests) < MaxDapRequests
    /\ \E outcome \in Outcomes :
           Handles("next", outcome, nextRequest(Handling, outcome))

StepInRequest ==
    /\ Len(dapRequests) < MaxDapRequests
    /\ \E outcome \in Outcomes :
           Handles("stepIn", outcome, stepInRequest(Handling, outcome))

NextResponses == ContinueRequest \/ NextRequest \/ StepInRequest

SpecResponses == InitResponses /\ [][NextResponses]_vars

\* The responses sent for request r.
ResponsesTo(r) == {k \in DOMAIN dapSent : dapSent[k].request_seq = r}

\* C34: for every request the session has handled, exactly one response,
\* success or error, has been sent to the client.
C34_ExactlyOneResponse ==
    \A r \in DOMAIN dapRequests : Cardinality(ResponsesTo(r)) = 1

(***************************************************************************)
(* C64jasmRuntime.start and C64jasmRuntime.terminate, one step for the     *)
(* code between two awaits. The MonitorConnection and the VICE process     *)
(* that the c-th call makes are called c.                                  *)
(***************************************************************************)
MaxRuntimeCalls == 3

RtNow ==
    [monitor |-> rtMonitor, pid |-> viceProcessId, vices |-> vices, live |-> liveMonitors,
     calls |-> rtCalls]

RtBecomes(r) ==
    /\ rtMonitor' = r.monitor
    /\ viceProcessId' = r.pid
    /\ vices' = r.vices
    /\ liveMonitors' = r.live
    /\ rtCalls' = r.calls

\* A call as it begins: m is the monitor it waits for the disposal of, pid
\* the vicePidToKill of terminate.
NewCall(op, at_) == [op |-> op, at |-> at_, m |-> 0, pid |-> 0]

\* this.monitor is a MonitorConnection whose dispose() has work to do.
Disposable(r) == r.monitor # 0 /\ r.monitor \in r.live

\* MonitorConnection.dispose up to its await, called by call c.
disposeBegin(r, c, at_) ==
    [r EXCEPT !.live = @ \ {r.monitor},
              !.calls[c].m = r.monitor,
              !.calls[c].at = at_]

\* The rest of dispose: VICE has quit on the QuitRequest, or has not.
disposeEnd(r, c, quits) ==
    IF quits THEN [r EXCEPT !.vices = @ \ {r.calls[c].m}] ELSE r

\* process.kill(pid, 'SIGTERM').
kill(r, pid) == [r EXCEPT !.vices = @ \ {pid}]

\* start() from `new MonitorConnection` to the await of createCommandsFile:
\* the new connection, and before it the stop of the VICE launched before.
newMonitorConnection(r, c) ==
    [r EXCEPT !.monitor = c, !.live = @ \cup {c}, !.calls[c].at = "launching"]

newMonitor(r, c) ==
    newMonitorConnection(IF r.pid # 0 THEN [kill(r, r.pid) EXCEPT !.pid = 0] ELSE r, c)

\* start() after the awaits of the debug information and of the ports.
startPorts(r, c) ==
    IF Disposable(r) THEN disposeBegin(r, c, "disposing")
    ELSE newMonitor([r EXCEPT !.monitor = 0], c)

\* start() after the await of dispose.
startDisposed(r, c, quits) == newMonitor([disposeEnd(r, c, quits) EXCEPT !.monitor = 0], c)

\* start() after runInTerminal has answered with the pid of the new VICE.
startLaunched(r, c) ==
    [r EXCEPT !.vices = @ \cup {c}, !.pid = c, !.calls[c].at = "connecting"]

\* The try block of start() ends well: this.monitor is connected.
startConnected(r, c) == [r EXCEPT !.calls[c].at = "done"]

\* The catch block of start().
startCatch(r, c) ==
    IF Disposable(r) THEN disposeBegin(r, c, "failing")
    ELSE [r EXCEPT !.monitor = 0, !.calls[c].at = "failed"]
startFailed(r, c, quits) ==
    [disposeEnd(r, c, quits) EXCEPT !.monitor = 0, !.calls[c].at = "failed"]

\* terminate() up to the await of dispose, and its rest.
terminateEnd(r, c, quits) ==
    [kill(disposeEnd(r, c, quits), r.calls[c].pid) EXCEPT !.calls[c].at = "done"]

terminateBegin(r, c) ==
    IF Disposable(r)
    THEN [disposeBegin(r, c, "disposing") EXCEPT !.monitor = 0, !.pid = 0,
                                                  !.calls[c].pid = r.pid]
    ELSE terminateEnd([r EXCEPT !.monitor = 0, !.pid = 0, !.calls[c].pid = r.pid], c, FALSE)

InitRuntime ==
    /\ AsmIdle
    /\ DriverIdle
    /\ DisIdle
    /\ MonIdle
    /\ DbgIdle

At(op, at_) == {c \in DOMAIN rtCalls : rtCalls[c].op = op /\ rtCalls[c].at = at_}

\* start() is called and awaits the debug information and the ports.
Start ==
    /\ Len(rtCalls) < MaxRuntimeCalls
    /\ RtBecomes([RtNow EXCEPT !.calls = Append(@, NewCall("start", "ports"))])
    /\ UNCHANGED notRtVars

StartPorts ==
    /\ \E c \in At("start", "ports") : RtBecomes(startPorts(RtNow, c))
    /\ UNCHANGED notRtVars

StartDisposed ==
    /\ \E c \in At("start", "disposing"), quits \in BOOLEAN :
           RtBecomes(startDisposed(RtNow, c, quits))
    /\ UNCHANGED notRtVars

StartLaunched ==
    /\ \E c \in At("start", "launching") : RtBecomes(startLaunched(RtNow, c))
    /\ UNCHANGED notRtVars

StartConnected ==
    /\ Disposable(RtNow)
    /\ \E c \in At("start", "connecting") : RtBecomes(startConnected(RtNow, c))
    /\ UNCHANGED notRtVars

\* waitForPort, waitConnectionDone or loadProgram throws.
StartCatch ==
    /\ \E c \in At("start", "connecting") : RtBecomes(startCatch(RtNow, c))
    /\ UNCHANGED notRtVars

StartFailed ==
    /\ \E c \in At("start", "failing"), quits \in BOOLEAN :
           RtBecomes(startFailed(RtNow, c, quits))
    /\ UNCHANGED notRtVars

\* terminate() is called.
Terminate ==
    /\ Len(rtCalls) < MaxRuntimeCalls
    /\ RtBecomes(terminateBegin([RtNow EXCEPT !.calls = Append(@, NewCall("terminate", "called"))],
                                Len(rtCalls) + 1))
    /\ UNCHANGED notRtVars

TerminateEnd ==
    /\ \E c \in At("terminate", "disposing"), quits \in BOOLEAN :
           RtBecomes(terminateEnd(RtNow, c, quits))
    /\ UNCHANGED notRtVars

NextRuntime ==
    \/ Start \/ StartPorts \/ StartDisposed \/ StartLaunched \/ StartConnected
    \/ StartCatch \/ StartFailed \/ Terminate \/ TerminateEnd

SpecRuntime == InitRuntime /\ [][NextRuntime]_vars

\* C35: at most one VICE process launched by the runtime runs and at most
\* one MonitorConnection made by it is not disposed, also while calls of
\* start() and of terminate() overlap.
C35_OneViceOneMonitor ==
    /\ Cardinality(vices) <= 1
    /\ Cardinality(liveMonitors) <= 1

(***************************************************************************)
(* The binary socket of a MonitorConnection: SocketWrapper of              *)
(* socketWrapper.ts in its two versions, the 'close' listener and          *)
(* dispose() of MonitorConnection, and the events of the net.Socket.       *)
(***************************************************************************)
MaxQuitEvents == 3

SockNow == [sock |-> sock, conn |-> conn, quit |-> quitEvents, late |-> late]

SockBecomes(k) ==
    /\ sock' = k.sock
    /\ conn' = k.conn
    /\ quitEvents' = k.quit
    /\ late' = k.late

\* The wrapper is disposed or, in version 2, its abort signal has fired.
Stopped_(k) == k.sock.disposed \/ k.sock.aborted

\* socket.connect(opts), whatever the state of the wrapper.
connectAlways(k) ==
    [k EXCEPT !.sock.socket = "connecting",
              !.late.connects = IF Stopped_(k) THEN @ + 1 ELSE @]

\* SocketWrapper.connect.
connect(k) == IF ~Stopped_(k) THEN connectAlways(k) ELSE k

\* SocketWrapper.onConnected, onError, onClosed.
onConnected(k) == [k EXCEPT !.sock.isConnected = TRUE, !.sock.retryingConnect = FALSE]
onError(k) == [k EXCEPT !.sock.isConnected = FALSE, !.sock.retryingConnect = FALSE]
onClosed(k) ==
    IF ~Stopped_(k) /\ ~k.sock.retryingConnect
    THEN [k EXCEPT !.sock.isConnected = FALSE, !.sock.retryingConnect = TRUE,
                   !.sock.timer = TRUE]
    ELSE [k EXCEPT !.sock.isConnected = FALSE]

\* A timer callback that connects whatever the state of the wrapper.
onTimerAlways(k) == connectAlways([k EXCEPT !.sock.timer = FALSE])

\* The callback of the timer of onClosed; version 1 leaves retryingConnect.
onTimer(k) ==
    IF ~Stopped_(k)
    THEN connect([k EXCEPT !.sock.timer = FALSE,
                           !.sock.retryingConnect = IF k.sock.version = 2 THEN FALSE ELSE @])
    ELSE [k EXCEPT !.sock.timer = FALSE, !.late.timers = TRUE]

\* SocketWrapper.dispose: socket.end() ends an open socket.
socketDispose(k) ==
    [k EXCEPT !.sock.disposed = TRUE,
              !.sock.socket = IF @ = "open" THEN "ending" ELSE @]

\* abort() of the AbortController; version 1 has no abort signal.
abort(k) == [k EXCEPT !.sock.aborted = (k.sock.version = 2) \/ @]

\* The 'close' listener of the constructor of MonitorConnection.
onBinaryClose(k) ==
    IF ~k.conn.disposed /\ k.conn.connectionEstablished
    THEN [k EXCEPT !.quit = @ + 1]
    ELSE k

\* MonitorConnection.dispose up to the await of the QuitRequest, and its
\* rest.
connDispose(k) ==
    IF ~k.conn.disposed
    THEN [abort(k) EXCEPT !.conn.disposed = TRUE, !.conn.at = "quitting"]
    ELSE k
connDisposeEnd(k) == [socketDispose(k) EXCEPT !.quit = @ + 1, !.conn.at = "idle"]

\* A MonitorConnection of either version of SocketWrapper after its
\* constructor: the wrapper has called connect().
InitConnection ==
    /\ AsmIdle
    /\ DriverIdle
    /\ DisIdle
    /\ MonIdle
    /\ BpIdle
    /\ SessIdle
    /\ RespIdle
    /\ RtIdle
    /\ conn = NewConnection
    /\ quitEvents = 0
    /\ late = [connects |-> 0, timers |-> FALSE]
    /\ \E version \in {1, 2} :
           sock = connect([sock |-> NewSocketWrapper(version), conn |-> conn,
                           quit |-> quitEvents, late |-> late]).sock

\* The 'connect' event of the net.Socket.
SocketConnects ==
    /\ sock.socket = "connecting"
    /\ SockBecomes(onConnected([SockNow EXCEPT !.sock.socket = "open"]))
    /\ UNCHANGED notSockVars

\* The connection attempt fails: the 'error' and the 'close' event.
SocketFails ==
    /\ sock.socket = "connecting"
    /\ quitEvents < MaxQuitEvents
    /\ SockBecomes(onBinaryClose(onClosed(onError([SockNow EXCEPT !.sock.socket = "closed"]))))
    /\ UNCHANGED notSockVars

\* The connection ends: the 'close' event.
SocketCloses ==
    /\ sock.socket \in {"open", "ending"}
    /\ quitEvents < MaxQuitEvents
    /\ SockBecomes(onBinaryClose(onClosed([SockNow EXCEPT !.sock.socket = "closed"])))
    /\ UNCHANGED notSockVars

\* The timer of onClosed fires.
TimerFires ==
    /\ sock.timer
    /\ SockBecomes(onTimer(SockNow))
    /\ UNCHANGED notSockVars

\* MonitorConnection.waitConnectionDone finds the sockets connected.
ConnectionDone ==
    /\ sock.isConnected
    /\ ~conn.connectionEstablished
    /\ SockBecomes([SockNow EXCEPT !.conn.connectionEstablished = TRUE])
    /\ UNCHANGED notSockVars

\* The runtime aborts the AbortController of the connection.
Abort ==
    /\ SockBecomes(abort(SockNow))
    /\ UNCHANGED notSockVars

\* dispose() of the MonitorConnection is called.
Dispose ==
    /\ SockBecomes(connDispose(SockNow))
    /\ UNCHANGED notSockVars

\* The QuitRequest of dispose() has settled.
DisposeEnd ==
    /\ conn.at = "quitting"
    /\ quitEvents < MaxQuitEvents
    /\ SockBecomes(connDisposeEnd(SockNow))
    /\ UNCHANGED notSockVars

NextConnection ==
    \/ SocketConnects \/ SocketFails \/ SocketCloses \/ TimerFires
    \/ ConnectionDone \/ Abort \/ Dispose \/ DisposeEnd

SpecConnection == InitConnection /\ [][NextConnection]_vars

\* C36: a MonitorConnection emits 'quit' at most once, whether its binary
\* socket closes first, dispose() is called first, or dispose() is called
\* again.
C36_QuitAtMostOnce == quitEvents <= 1

\* C37: once a SocketWrapper is disposed, or its abort signal has fired, it
\* starts no connection attempt, not even from a timer that onClosed had
\* scheduled before.
C37_NoConnectAfterDispose == late.connects = 0

\* The timer of onClosed fired after the wrapper was disposed or aborted,
\* and no connection attempt was started.
C37_Witness ==
    /\ late.timers
    /\ late.connects = 0
    /\ sock.disposed \/ sock.aborted
    /\ sock.socket = "closed"

====
